---------------------------- MODULE Spec2Model ----------------------------
(***************************************************************************)
(* A model of the configuration resolution engine of parsley:             *)
(* value trees, the precedence merger, sentinel pruning, the union-aware  *)
(* decoder, the shadow schemas, the recursive resolver and the parser's   *)
(* precedence pipeline.                                                    *)
(*                                                                         *)
(* Python values are tagged records (field k is the tag), Python types    *)
(* are tagged records (field t is the tag), and a raised exception is a   *)
(* value of tag "err" that every caller propagates unless the code        *)
(* catches it.                                                             *)
(***************************************************************************)
EXTENDS Integers, Sequences, FiniteSets, TLC

VARIABLES
    pc,                 \* position of the call under way
    fn,                 \* the operation under way
    args,               \* its inputs
    ret,                \* its result (a value, or an "err" value)
    errors,             \* from_dict_with_union_handling: the errors list of the union loop
    final_resolved_val, \* resolve_extended_object_to_dict_one_field: the accumulator
    args_config_file,   \* Parsley.args_config_file
    merged_args,        \* Parsley.merged_args
    yaml_path_resolved, \* resolve_yaml_file_to_base_dataclass: the path given to open
    yaml_data,          \* resolve_yaml_file_to_base_dataclass: what yaml.safe_load returned
    stack,              \* the calls of a shadow derivation that have not returned
    _processed,         \* make_dataclass_with_optional_paths_and_overwrite: _processed
    _partial_cache,     \* alternative_dataclasses._partial_cache
    returned            \* the derivations that returned so far, with what they returned

vars == <<pc, fn, args, ret, errors, final_resolved_val, args_config_file, merged_args,
          yaml_path_resolved, yaml_data, stack, _processed, _partial_cache, returned>>

-----------------------------------------------------------------------------
(* Bounds of the model                                                     *)

\* number of distinct integer scalars a leaf can hold
MaxVal == 2
\* number of file hops after which the interpreter's recursion limit is hit
MaxDepth == 3

-----------------------------------------------------------------------------
(* Python values                                                           *)

IntV(n) == [k |-> "int", i |-> n]
StrV(s) == [k |-> "str", s |-> s]
NoneV == [k |-> "none"]
\* the sentinel object of sentinels.py
notfilled == [k |-> "nf"]
\* a dict; d is a function from string keys to values
Dict(f) == [k |-> "dict", d |-> f]
\* a list
List(l) == [k |-> "list", l |-> l]
\* an instance of the dataclass named c with attributes a
Obj(c, a) == [k |-> "obj", c |-> c, a |-> a]
\* a member of an Enum class c that has get_yaml_file_path(); v is its value
EnumV(c, v) == [k |-> "enum", c |-> c, v |-> v]
\* a raised exception of class e; m is what its message names
Err(e, m) == [k |-> "err", e |-> e, m |-> m]
\* no value: the local variable is still None
Unset == [k |-> "unset"]

EmptyDict == Dict(<<>>)

IsErr(v) == "k" \in DOMAIN v /\ v.k = "err"
IsDict(v) == v.k = "dict"

is_notfilled(value) == value.k = "nf"

\* Python truthiness of a dict
NonEmpty(d) == DOMAIN d.d # {}

-----------------------------------------------------------------------------
(* utils.merge_nested_dicts                                                *)

RECURSIVE merge_nested_dicts(_, _)
RECURSIVE MergeLoop(_, _, _)

\* a mutant: nested mappings are replaced like any other value
MergeLoopShallow(result, d2, keys) ==
    [key \in DOMAIN result \cup keys |-> IF key \in keys THEN d2[key] ELSE result[key]]

\* the body of the for loop over d2.items(); keys are the keys still to visit
MergeLoop(result, d2, keys) ==
    IF keys = {} THEN result
    ELSE LET key == CHOOSE x \in keys : TRUE
             val == d2[key]
             new == IF key \in DOMAIN result /\ IsDict(result[key]) /\ IsDict(val)
                    THEN merge_nested_dicts(result[key], val)
                    ELSE val
         IN MergeLoop((key :> new) @@ result, d2, keys \ {key})

merge_nested_dicts(d1, d2) == Dict(MergeLoop(d1.d, d2.d, DOMAIN d2.d))

-----------------------------------------------------------------------------
(* utils.remove_notfilled_values                                           *)

\* a mutant of remove_notfilled_values: nothing is removed
remove_notfilled_values_kept(d) == d

RECURSIVE remove_notfilled_values(_)

remove_notfilled_values(d) ==
    IF ~IsDict(d) THEN d
    ELSE LET nested(key) == remove_notfilled_values(d.d[key])
             kept == {key \in DOMAIN d.d :
                         IF IsDict(d.d[key]) THEN NonEmpty(nested(key))
                         ELSE ~is_notfilled(d.d[key])}
         IN Dict([key \in kept |-> IF IsDict(d.d[key]) THEN nested(key) ELSE d.d[key]])


-----------------------------------------------------------------------------
(* Python types                                                            *)

TInt == [t |-> "int"]
TStr == [t |-> "str"]
TNone == [t |-> "NoneType"]
TNotFilled == [t |-> "_NotFilled"]
\* Literal[vals]
TLiteral(vals) == [t |-> "Literal", vals |-> vals]
\* Union[args], or args[1] | args[2] | ...
TUnion(targs) == [t |-> "Union", args |-> targs]
\* a dataclass and its fields, in declaration order
TData(name, fields) == [t |-> "dataclass", name |-> name, fields |-> fields]
\* a subscripted generic, origin[targs]: list[X], dict[K, V], Sequence[X]
TGeneric(origin, targs) == [t |-> "generic", origin |-> origin, args |-> targs]
\* an Enum class whose members have the values members and whose
\* get_yaml_file_path() returns files[value]
TEnum(name, members, files) ==
    [t |-> "Enum", name |-> name, members |-> members, files |-> files]

\* dataclasses.MISSING
Missing == [k |-> "MISSING"]
\* a dataclass field; default is Missing, a default value, or what the
\* default factory returns
Field(name, type, default) == [name |-> name, type |-> type, default |-> default]

is_dataclass_type(tp) == tp.t = "dataclass"
is_union(tp) == tp.t = "Union"
\* is_dataclass(obj) for a value: an instance of a dataclass
is_dataclass(val) == val.k = "obj"

SeqToSet(q) == {q[i] : i \in DOMAIN q}

\* dacite's is_optional: a Union with NoneType among its members
is_optional(tp) == is_union(tp) /\ TNone \in SeqToSet(tp.args)

-----------------------------------------------------------------------------
(* Conversions of scalars: int(x) and str(x)                               *)

Digits == <<"1", "2", "3", "4", "5", "6", "7", "8", "9">>

\* str(x)
StrOf(x) ==
    CASE x.k = "str" -> x
      [] x.k = "int" /\ x.i \in DOMAIN Digits -> StrV(Digits[x.i])
      [] x.k = "none" -> StrV("None")
      [] OTHER -> StrV("<repr>")

\* int(x); raises ValueError or TypeError for what is no number
IntOf(x) ==
    CASE x.k = "int" -> x
      [] x.k = "str" /\ x.s \in SeqToSet(Digits) ->
            IntV(CHOOSE i \in DOMAIN Digits : Digits[i] = x.s)
      [] x.k = "str" -> Err("ValueError", "int")
      [] OTHER -> Err("TypeError", "int")

\* the Enum classes whose members have int values; their members are named
\* by the digits of their value
IntValued == {"Level"}

\* member.value
MemberValue(member) ==
    IF member.c \in IntValued THEN IntOf(StrV(member.v)) ELSE StrV(member.v)

\* EnumClass(data): the member whose value is data
EnumOf(tp, data) ==
    CASE data.k = "enum" /\ data.c = tp.name -> data
      [] \E i \in DOMAIN tp.members : MemberValue(EnumV(tp.name, tp.members[i])) = data ->
            EnumV(tp.name, StrOf(data).s)
      [] OTHER -> Err("ValueError", tp.name)

-----------------------------------------------------------------------------
(* dacite.from_dict, as the library the decoder calls                      *)

RECURSIVE is_instance(_, _)

\* a mutant of is_instance: any value passes for a Literal
is_instance_any_literal(value, tp) ==
    CASE tp.t = "int" -> value.k = "int"
      [] tp.t = "str" -> value.k = "str"
      [] tp.t = "NoneType" -> value.k = "none"
      [] tp.t = "_NotFilled" -> value.k = "nf"
      [] tp.t = "Enum" -> value.k = "enum" /\ value.c = tp.name
      [] tp.t = "dataclass" -> value.k = "obj" /\ value.c = tp.name
      [] tp.t = "Literal" -> TRUE
      [] tp.t = "Union" -> \E i \in DOMAIN tp.args : is_instance(value, tp.args[i])
      [] OTHER -> FALSE

\* dacite.types.is_instance
is_instance(value, tp) ==
    CASE tp.t = "int" -> value.k = "int"
      [] tp.t = "str" -> value.k = "str"
      [] tp.t = "NoneType" -> value.k = "none"
      [] tp.t = "_NotFilled" -> value.k = "nf"
      [] tp.t = "Enum" -> value.k = "enum" /\ value.c = tp.name
      [] tp.t = "dataclass" -> value.k = "obj" /\ value.c = tp.name
      [] tp.t = "Literal" -> value \in SeqToSet(tp.vals)
      [] tp.t = "Union" -> \E i \in DOMAIN tp.args : is_instance(value, tp.args[i])
      [] OTHER -> FALSE

\* dacite.dataclasses.get_default_value_for_field
get_default_value_for_field(field) ==
    IF field.default # Missing THEN field.default
    ELSE IF is_optional(field.type) THEN NoneV
    ELSE Err("MissingValueError", field.name)

RECURSIVE dacite_from_dict(_, _, _)
RECURSIVE FromDictLoop(_, _, _, _, _)
RECURSIVE build_value(_, _, _)
RECURSIVE build_value_for_union(_, _, _, _)

\* dacite.core._build_value; cast says whether config.cast holds Enum
build_value(tp, data, cast) ==
    IF is_optional(tp) /\ data.k = "none" THEN data
    ELSE LET built == IF is_union(tp) THEN
                          IF is_optional(tp) /\ Len(tp.args) = 2
                          THEN build_value(tp.args[1], data, cast)
                          ELSE build_value_for_union(tp, data, cast, 1)
                      ELSE IF is_dataclass_type(tp) /\ IsDict(data)
                      THEN dacite_from_dict(tp, data, cast)
                      ELSE data
         IN IF IsErr(built) THEN built
            ELSE IF cast /\ tp.t = "Enum" THEN EnumOf(tp, built)
            ELSE built

\* dacite.core._build_value_for_union, from member i on
build_value_for_union(union, data, cast, i) ==
    IF i > Len(union.args) THEN Err("UnionMatchError", "union")
    ELSE LET value == build_value(union.args[i], data, cast)
         IN IF ~IsErr(value) /\ is_instance(value, union.args[i]) THEN value
            ELSE build_value_for_union(union, data, cast, i + 1)

\* the loop of dacite.from_dict over the fields, from field i on
FromDictLoop(data_class, data, cast, i, init_values) ==
    IF i > Len(data_class.fields) THEN Obj(data_class.name, init_values)
    ELSE LET field == data_class.fields[i]
             value == IF field.name \in DOMAIN data.d
                      THEN LET v == build_value(field.type, data.d[field.name], cast)
                           IN IF IsErr(v) THEN v
                              ELSE IF ~is_instance(v, field.type)
                                   THEN Err("WrongTypeError", field.name)
                                   ELSE v
                      ELSE get_default_value_for_field(field)
         IN IF IsErr(value) THEN value
            ELSE FromDictLoop(data_class, data, cast, i + 1,
                              (field.name :> value) @@ init_values)

dacite_from_dict(data_class, data, cast) ==
    FromDictLoop(data_class, data, cast, 1, <<>>)

-----------------------------------------------------------------------------
(* utils.from_dict_with_union_handling (config is always cast=[Enum])      *)

RECURSIVE from_dict_with_union_handling(_, _)
RECURSIVE UnionLoop(_, _, _)
RECURSIVE FieldUnionLoop(_, _, _)
RECURSIVE FieldFallbackLoop(_, _, _, _)

\* a mutant of LiteralMatches: the literal itself only, never its value
LiteralMatchesIdentity(literal_value, data) == data = literal_value

\* the three tests of the Literal shim for one literal value
LiteralMatches(literal_value, data) ==
    \/ data = literal_value
    \/ literal_value.k = "enum" /\ data = MemberValue(literal_value)
    \/ data.k = "enum" /\ literal_value.k = "enum"
       /\ MemberValue(data) = MemberValue(literal_value)

LiteralShim(data_class, data) ==
    IF \E i \in DOMAIN data_class.vals : LiteralMatches(data_class.vals[i], data)
    THEN data
    ELSE Err("UnionMatchError", "Literal")

\* one entry of the errors list: "Failed with {union_type}: {inner_error}"
Failure(union_type, inner_error) == [type |-> union_type, error |-> inner_error]

\* a mutant of UnionStep: the members are visited from the last to the first
UnionStepReversed(union_types, data, errs) ==
    LET i == Len(union_types) - Len(errs)
        parsed == from_dict_with_union_handling(union_types[i], data)
    IN IF ~IsErr(parsed)
       THEN [done |-> TRUE, ret |-> parsed, errors |-> errs]
       ELSE [done |-> FALSE, ret |-> Unset,
             errors |-> Append(errs, Failure(union_types[i], parsed))]

\* one pass of the loop over union_types, errs being the errors so far
UnionStep(union_types, data, errs) ==
    LET i == Len(errs) + 1
        parsed == from_dict_with_union_handling(union_types[i], data)
    IN IF ~IsErr(parsed)
       THEN [done |-> TRUE, ret |-> parsed, errors |-> errs]
       ELSE [done |-> FALSE, ret |-> Unset,
             errors |-> Append(errs, Failure(union_types[i], parsed))]

\* the loop over the members of a Union target and the raise after it
UnionLoop(union_types, data, errs) ==
    IF Len(errs) >= Len(union_types) THEN Err("UnionParsingError", errs)
    ELSE LET step == UnionStep(union_types, data, errs)
         IN IF step.done THEN step.ret
            ELSE UnionLoop(union_types, data, step.errors)

\* the Enum branch
EnumBranch(data_class, data) ==
    IF data.k = "enum" /\ data.c = data_class.name THEN data
    ELSE IF data.k = "str" THEN EnumOf(data_class, data)
    ELSE Err("UnionMatchError", data_class.name)

\* the branch of primitives and normal classes: isinstance, then ctor(data)
PrimitiveBranch(data_class, data) ==
    IF is_instance(data, data_class) THEN data
    ELSE LET made == IF data_class.t = "int" THEN IntOf(data) ELSE StrOf(data)
         IN IF IsErr(made) THEN Err("UnionMatchError", data_class.t) ELSE made

\* the inner loop of the fallback: the members of a union-typed field, from
\* member i on; the result is the first parsed value or an error
FieldUnionLoop(union_types, value, i) ==
    IF i > Len(union_types) THEN Err("NoMatch", "field")
    ELSE LET parsed == from_dict_with_union_handling(union_types[i], value)
         IN IF ~IsErr(parsed) THEN parsed
            ELSE FieldUnionLoop(union_types, value, i + 1)

\* the fallback after dacite's UnionMatchError: the loop over hints.items(),
\* from field i on; the result is the patched data_dict and the field_errors
FieldFallbackLoop(data_class, data_dict, i, field_errors) ==
    IF i > Len(data_class.fields)
    THEN [data_dict |-> data_dict, field_errors |-> field_errors]
    ELSE LET field == data_class.fields[i]
             name == field.name
         IN IF name \notin DOMAIN data_dict
            THEN FieldFallbackLoop(data_class, data_dict, i + 1, field_errors)
            ELSE IF is_union(field.type)
            THEN LET parsed == FieldUnionLoop(field.type.args, data_dict[name], 1)
                 IN IF IsErr(parsed)
                    THEN FieldFallbackLoop(data_class, data_dict, i + 1,
                                           Append(field_errors, name))
                    ELSE FieldFallbackLoop(data_class, (name :> parsed) @@ data_dict,
                                           i + 1, field_errors)
            ELSE IF is_dataclass_type(field.type) /\ IsDict(data_dict[name])
            THEN LET parsed == from_dict_with_union_handling(field.type, data_dict[name])
                 IN IF IsErr(parsed)
                    THEN FieldFallbackLoop(data_class, data_dict, i + 1,
                                           Append(field_errors, name))
                    ELSE FieldFallbackLoop(data_class, (name :> parsed) @@ data_dict,
                                           i + 1, field_errors)
            ELSE FieldFallbackLoop(data_class, data_dict, i + 1, field_errors)

\* the dataclass branch: dacite.from_dict, and the field by field fallback
\* when it raises UnionMatchError
DataclassBranch(data_class, data) ==
    IF ~IsDict(data) THEN Err("UnionMatchError", data_class.name)
    ELSE LET first == dacite_from_dict(data_class, data, TRUE)
         IN IF ~(IsErr(first) /\ first.e = "UnionMatchError") THEN first
            ELSE LET fb == FieldFallbackLoop(data_class, data.d, 1, <<>>)
                 IN IF fb.field_errors # <<>>
                    THEN Err("FieldUnionParsingError", fb.field_errors)
                    ELSE dacite_from_dict(data_class, Dict(fb.data_dict), TRUE)

from_dict_with_union_handling(data_class, data) ==
    CASE data_class.t = "Literal" -> LiteralShim(data_class, data)
      [] data_class.t = "Union" -> UnionLoop(data_class.args, data, <<>>)
      [] data_class.t = "NoneType" ->
            IF data.k = "none" THEN data ELSE Err("UnionMatchError", "NoneType")
      [] data_class.t = "_NotFilled" ->
            IF is_notfilled(data) THEN data ELSE Err("UnionMatchError", "_NotFilled")
      [] data_class.t = "Enum" -> EnumBranch(data_class, data)
      [] data_class.t \in {"int", "str"} -> PrimitiveBranch(data_class, data)
      [] OTHER -> DataclassBranch(data_class, data)

-----------------------------------------------------------------------------
(* Helpers on types: utils.py and Python's union operator                  *)

\* the members a type contributes to a union
Members(tp) == IF is_union(tp) THEN tp.args ELSE <<tp>>

RECURSIVE AppendNew(_, _)
\* acc followed by the entries of more it does not hold yet
AppendNew(acc, more) ==
    IF more = <<>> THEN acc
    ELSE AppendNew(IF Head(more) \in SeqToSet(acc) THEN acc ELSE Append(acc, Head(more)),
                   Tail(more))

\* a | b on types: nested unions are flattened, duplicates dropped, and a
\* union of one member is that member
Or(a, b) ==
    LET ms == AppendNew(<<>>, Members(a) \o Members(b))
    IN IF Len(ms) = 1 THEN ms[1] ELSE TUnion(ms)

RECURSIVE OrAll(_, _)
\* union_type = new_args[0]; for arg in new_args[1:]: union_type |= arg
OrAll(union_type, rest) ==
    IF rest = <<>> THEN union_type ELSE OrAll(Or(union_type, Head(rest)), Tail(rest))

RECURSIVE is_or_contains_dataclass(_)
is_or_contains_dataclass(tp) ==
    IF is_dataclass_type(tp) THEN TRUE
    ELSE IF is_union(tp) THEN \E i \in DOMAIN tp.args : is_or_contains_dataclass(tp.args[i])
    ELSE IF tp.t = "generic" /\ tp.origin \in {"list", "tuple", "set", "dict"}
    THEN \E i \in DOMAIN tp.args : is_or_contains_dataclass(tp.args[i])
    ELSE FALSE

extract_union_types(tp) == IF is_union(tp) THEN tp.args ELSE <<tp>>

\* resolve_type: NoneType and _NotFilled are stripped from a union; one
\* member left is returned, anything else falls back to str
resolve_type(typ) ==
    IF is_union(typ)
    THEN LET targs == SelectSeq(typ.args, LAMBDA arg : arg \notin {TNone, TNotFilled})
         IN IF Len(targs) = 1 THEN targs[1] ELSE TStr
    ELSE typ

-----------------------------------------------------------------------------
(* alternative_dataclasses.py: the shadow schemas                          *)

RECURSIVE make_dataclass_with_optional_paths_and_overwrite(_)
RECURSIVE replace_nested_types(_)
RECURSIVE PathsLoop(_, _, _, _)
RECURSIVE make_partial_dataclass_notfilled(_)
RECURSIVE transform_type_for_notfilled(_)

\* replace_nested_types with transform_fn the path-augmented derivation
replace_nested_types(tp) ==
    CASE tp.t = "Literal" -> tp
      [] is_dataclass_type(tp) -> make_dataclass_with_optional_paths_and_overwrite(tp)
      [] is_union(tp) ->
            LET transformed_args == [i \in DOMAIN tp.args |-> replace_nested_types(tp.args[i])]
            IN OrAll(transformed_args[1], Tail(transformed_args))
      [] tp.t = "generic" ->
            TGeneric(tp.origin, [i \in DOMAIN tp.args |-> replace_nested_types(tp.args[i])])
      [] OTHER -> tp

\* any(f.name == existing[0] for existing in the list)
HasName(field_list, name) == \E i \in DOMAIN field_list : field_list[i].name = name

\* dataclasses.make_dataclass: a name given twice is a TypeError
dataclasses_make_dataclass(cls_name, field_list) ==
    IF \E i, j \in DOMAIN field_list : i < j /\ field_list[i].name = field_list[j].name
    THEN Err("TypeError", "Field name duplicated")
    ELSE TData(cls_name, field_list)

\* the loop over fields(cls), from field i on
PathsLoop(cls, i, required_fields, optional_fields) ==
    IF i > Len(cls.fields)
    THEN dataclasses_make_dataclass(cls.name \o "_WithOptionalPath",
                                    required_fields \o optional_fields)
    ELSE LET f == cls.fields[i]
             original_type == f.type
             transformed_type == replace_nested_types(original_type)
         IN IF is_or_contains_dataclass(original_type)
            THEN IF ~HasName(optional_fields, f.name)
                 THEN PathsLoop(cls, i + 1, required_fields,
                        optional_fields \o
                        <<Field(f.name, Or(transformed_type, TNone), NoneV),
                          Field(f.name \o "_path_to_yaml_file", Or(TStr, TNone), NoneV),
                          Field(f.name \o "_overwrite", Or(transformed_type, TNone), NoneV)>>)
                 ELSE PathsLoop(cls, i + 1, required_fields, optional_fields)
            ELSE IF f.default # Missing
            THEN IF ~HasName(optional_fields, f.name)
                 THEN PathsLoop(cls, i + 1, required_fields,
                                Append(optional_fields, Field(f.name, transformed_type, f.default)))
                 ELSE PathsLoop(cls, i + 1, required_fields, optional_fields)
            ELSE IF ~HasName(required_fields, f.name)
                 THEN PathsLoop(cls, i + 1,
                                Append(required_fields, Field(f.name, transformed_type, Missing)),
                                optional_fields)
                 ELSE PathsLoop(cls, i + 1, required_fields, optional_fields)

make_dataclass_with_optional_paths_and_overwrite(cls) ==
    IF ~is_dataclass_type(cls) THEN Err("AssertionError", "must be a dataclass")
    ELSE PathsLoop(cls, 1, <<>>, <<>>)

transform_type_for_notfilled(tp) ==
    CASE tp.t = "Literal" -> Or(tp, TNotFilled)
      [] is_dataclass_type(tp) -> Or(make_partial_dataclass_notfilled(tp), TNotFilled)
      [] is_union(tp) ->
            LET new_args == [i \in DOMAIN tp.args |-> transform_type_for_notfilled(tp.args[i])]
            IN Or(OrAll(new_args[1], Tail(new_args)), TNotFilled)
      [] tp.t = "generic" ->
            Or(TGeneric(tp.origin,
                        [i \in DOMAIN tp.args |-> transform_type_for_notfilled(tp.args[i])]),
               TNotFilled)
      [] OTHER -> Or(tp, TNotFilled)

make_partial_dataclass_notfilled(cls) ==
    IF ~is_dataclass_type(cls) THEN Err("DataclassTypeError", "not a dataclass")
    ELSE TData("Partial" \o cls.name \o "_NotFilled",
               [i \in DOMAIN cls.fields |->
                   Field(cls.fields[i].name,
                         transform_type_for_notfilled(cls.fields[i].type),
                         notfilled)])

make_partial_dataclass_with_optional_paths(cls) ==
    LET optional_paths_class == make_dataclass_with_optional_paths_and_overwrite(cls)
    IN IF IsErr(optional_paths_class) THEN optional_paths_class
       ELSE make_partial_dataclass_notfilled(optional_paths_class)

-----------------------------------------------------------------------------
(* The file system and the objects the resolver reads                      *)

NestedConfig == TData("NestedConfig", <<Field("z", TInt, Missing), Field("w", TInt, IntV(2))>>)

\* an Enum whose members name their own backing file
ModelPreset == TEnum("ModelPreset", <<"small", "large">>,
                     [small |-> "z1.yaml", large |-> "z1w1.yaml"])
EnumClasses == {ModelPreset}

\* the YAML files that exist, with what yaml.safe_load returns for each
Files ==
    [f \in {"z1.yaml", "z1w1.yaml", "w1.yaml", "a1.yaml", "pkg/z1.yaml", "empty.yaml",
            "outer.yaml", "config.yaml", "hop.yaml", "option.yaml", "preset.yaml",
            "shape.yaml", "pointx.yaml", "deep.yaml", "inline.yaml", "bad.yaml",
            "both.yaml"} |->
        CASE f = "z1.yaml" -> Dict([z |-> IntV(1)])
          [] f = "z1w1.yaml" -> Dict([z |-> IntV(1), w |-> IntV(1)])
          [] f = "w1.yaml" -> Dict([w |-> IntV(1)])
          [] f = "a1.yaml" -> Dict([discriminator |-> StrV("A"), value |-> IntV(1)])
          [] f = "pkg/z1.yaml" -> Dict([z |-> IntV(1)])
          [] f = "empty.yaml" -> NoneV
          [] f = "config.yaml" -> Dict([x |-> IntV(1)])
          [] f = "hop.yaml" -> Dict([b |-> Dict([x |-> IntV(1)])])
          [] f = "option.yaml" ->
                Dict([option |-> Dict([discriminator |-> StrV("A"), value |-> IntV(1)])])
          [] f = "preset.yaml" -> Dict([model |-> StrV("large")])
          [] f = "shape.yaml" -> Dict([point |-> Dict([x |-> IntV(1), y |-> IntV(1)])])
          [] f = "pointx.yaml" -> Dict([point |-> Dict([x |-> IntV(1)])])
          [] f = "deep.yaml" -> Dict([c_path_to_yaml_file |-> StrV("outer.yaml")])
          [] f = "inline.yaml" ->
                Dict([c |-> Dict([x |-> IntV(1),
                                  nested_config_path_to_yaml_file |-> StrV("z1w1.yaml")])])
          [] f = "both.yaml" ->
                Dict([x |-> IntV(1),
                      nested_config_path_to_yaml_file |-> StrV("z1w1.yaml"),
                      nested_config |-> Dict([w |-> IntV(0)])])
          [] f = "bad.yaml" ->
                Dict([x |-> IntV(1),
                      nested_config_path_to_yaml_file |-> StrV("missing.yaml")])
          [] OTHER -> Dict([x |-> IntV(1),
                            nested_config_path_to_yaml_file |-> StrV("z1w1.yaml")])]

\* the paths that start with "package://", with what follows the prefix
PackageRelative ==
    [p \in {"package://z1.yaml", "package://missing.yaml", "package:///z1.yaml"} |->
        CASE p = "package://z1.yaml" -> "z1.yaml"
          [] p = "package://missing.yaml" -> "missing.yaml"
          [] OTHER -> "/z1.yaml"]

\* the paths that start with "/"
Absolute == {"/z1.yaml"}

\* the files that exist and that open refuses to read
Unreadable == {"locked.yaml"}

\* a second instance of _NotFilled, as copy.deepcopy makes one
NotFilledCopy == [k |-> "nf", copy |-> TRUE]

getattr(obj, name) == IF name \in DOMAIN obj.a THEN obj.a[name] ELSE notfilled

\* hasattr(val, "get_yaml_file_path")
has_get_yaml_file_path(val) ==
    val.k = "enum" /\ \E cls \in EnumClasses : cls.name = val.c

get_yaml_file_path(val) ==
    LET cls == CHOOSE c \in EnumClasses : c.name = val.c
    IN StrV(cls.files[val.v])

RECURSIVE asdict_inner(_)
\* dataclasses._asdict_inner: instances become dicts, anything else is deep-copied
asdict_inner(o) ==
    CASE o.k = "obj" -> Dict([n \in DOMAIN o.a |-> asdict_inner(o.a[n])])
      [] o.k = "dict" -> Dict([n \in DOMAIN o.d |-> asdict_inner(o.d[n])])
      [] o.k = "list" -> List([i \in DOMAIN o.l |-> asdict_inner(o.l[i])])
      [] o.k = "nf" -> NotFilledCopy
      [] OTHER -> o

asdict(obj) ==
    IF ~is_dataclass(obj) THEN Err("TypeError", "asdict() should be called on dataclass instances")
    ELSE asdict_inner(obj)

\* dataclasses.fields
fields(base_cls) ==
    IF is_dataclass_type(base_cls) THEN base_cls.fields
    ELSE Err("TypeError", "must be called with a dataclass type or instance")

-----------------------------------------------------------------------------
(* recursive_dataclass_with_path_to_yaml.py: the resolver                  *)

\* os.path.join(a, p): an absolute p discards a
os_path_join(a, p) ==
    IF p \in Absolute THEN p
    ELSE IF a = "" THEN p
    ELSE a \o "/" \o p

\* a mutant of resolve_package_path: the prefix is cut and no root is asked for
resolve_package_path_rootless(path, package_root) ==
    IF path.s \in DOMAIN PackageRelative THEN StrV(PackageRelative[path.s]) ELSE path

resolve_package_path(path, package_root) ==
    IF path.s \in DOMAIN PackageRelative
    THEN IF package_root = NoneV THEN Err("PackageRootRequiredError", path.s)
         ELSE StrV(os_path_join(package_root.s, PackageRelative[path.s]))
    ELSE path

\* the OSError open raises for a path it cannot read
OSError(path) ==
    IF path \in Unreadable THEN Err("PermissionError", path)
    ELSE Err("FileNotFoundError", path)

\* raise error from cause
RaiseFrom(error, cause) == [k |-> "err", e |-> error.e, m |-> error.m, cause |-> cause]

\* a mutant of ReadYaml: the error carries the path given to open
ReadYamlResolvedPath(yaml_path, file_name) ==
    IF file_name.s \in DOMAIN Files THEN Files[file_name.s]
    ELSE RaiseFrom(Err("YamlFileReadError", file_name.s),
                   OSError(file_name.s))

\* open(file_name) and yaml.safe_load
ReadYaml(yaml_path, file_name) ==
    IF file_name.s \in DOMAIN Files THEN Files[file_name.s]
    ELSE RaiseFrom(Err("YamlFileReadError", yaml_path.s), OSError(file_name.s))

\* a merge the wrong way round
_merge_if_present_reversed(base, part) ==
    IF part = NoneV THEN base ELSE merge_nested_dicts(part, base)

_merge_if_present(base, part) ==
    IF part = NoneV THEN base ELSE merge_nested_dicts(base, part)

\* an exception raised by a call leaves the caller; otherwise the caller goes
\* on with the value returned
Try(value, Continue(_)) == IF IsErr(value) THEN value ELSE Continue(value)

\* try: variable = trial; except Exception: continue
Assigned(variable, trial) == IF IsErr(trial) THEN variable ELSE trial

\* if variable is None: raise error
RaiseIfNone(variable, error) == IF variable = NoneV THEN error ELSE variable

RECURSIVE resolve_extended_object_to_dict(_, _, _, _, _)
RECURSIVE ResolveLoop(_, _, _, _, _, _, _)
RECURSIVE resolve_extended_object_to_dict_one_field(_, _, _, _, _)
RECURSIVE resolve_extended_object(_, _, _, _, _)
RECURSIVE resolve_dict_to_base_dataclass(_, _, _, _, _)
RECURSIVE resolve_yaml_file_to_base_dataclass(_, _, _, _, _)
RECURSIVE _resolve_dataclass_from_path(_, _, _, _, _, _)
RECURSIVE _try_resolve_direct_dataclass_value(_, _, _, _, _, _)
RECURSIVE DirectTrial(_, _, _, _, _)
RECURSIVE DirectLoop(_, _, _, _, _, _, _)
RECURSIVE _try_resolve_yaml_provider_value(_, _, _, _, _, _)
RECURSIVE ProviderTrial(_, _, _, _, _)
RECURSIVE ProviderLoop(_, _, _, _, _, _, _)
RECURSIVE _try_resolve_overwrite_value(_, _, _, _, _)
RECURSIVE OverwriteTrial(_, _, _, _)
RECURSIVE OverwriteLoop(_, _, _, _, _, _)

resolve_yaml_file_to_base_dataclass(yaml_path, base_cls, raise_error_with_nones, package_name, level_of_recursion) ==
    IF level_of_recursion > MaxDepth THEN Err("RecursionError", yaml_path.s)
    ELSE Try(resolve_package_path(yaml_path, package_name), LAMBDA file_name :
         Try(ReadYaml(yaml_path, file_name), LAMBDA loaded :
             resolve_dict_to_base_dataclass(loaded, base_cls, raise_error_with_nones,
                                            package_name, level_of_recursion)))

resolve_dict_to_base_dataclass(dicto, base_cls, raise_error_with_nones, package_name, level_of_recursion) ==
    Try(make_partial_dataclass_with_optional_paths(base_cls), LAMBDA extended_cls :
    Try(from_dict_with_union_handling(extended_cls, dicto), LAMBDA extended_obj :
        resolve_extended_object(extended_obj, base_cls, raise_error_with_nones,
                                package_name, level_of_recursion)))

resolve_extended_object(extended_obj, base_cls, raise_error_with_nones, package_name, level_of_recursion) ==
    Try(resolve_extended_object_to_dict(extended_obj, base_cls, raise_error_with_nones,
                                        package_name, level_of_recursion),
        LAMBDA resolved_data :
            from_dict_with_union_handling(base_cls, remove_notfilled_values(resolved_data)))

\* the loop over fields(base_cls), from field i on
ResolveLoop(extended_obj, field_list, i, resolved_data, raise_error_with_notfilled, package_name, level_of_recursion) ==
    IF i > Len(field_list) THEN Dict(resolved_data)
    ELSE Try(resolve_extended_object_to_dict_one_field(extended_obj, field_list[i],
                raise_error_with_notfilled, package_name, level_of_recursion),
             LAMBDA value :
                ResolveLoop(extended_obj, field_list, i + 1,
                            (field_list[i].name :> value) @@ resolved_data,
                            raise_error_with_notfilled, package_name, level_of_recursion))

resolve_extended_object_to_dict(extended_obj, base_cls, raise_error_with_notfilled, package_name, level_of_recursion) ==
    IF IsErr(base_cls) THEN base_cls
    ELSE IF ~is_dataclass(extended_obj) THEN Err("AssertionError", "is_dataclass(extended_obj)")
    ELSE IF ~is_dataclass_type(base_cls) THEN fields(base_cls)
    ELSE ResolveLoop(extended_obj, fields(base_cls), 1, <<>>, raise_error_with_notfilled,
                     package_name, level_of_recursion)

\* a Case 1 that takes a path that is no string for no path
_resolve_dataclass_from_path_unchecked(field, base_field_type, path_val, raise_error_with_notfilled, package_name, level_of_recursion) ==
    IF is_notfilled(path_val) \/ path_val.k # "str" THEN NoneV
    ELSE Try(resolve_yaml_file_to_base_dataclass(path_val, resolve_type(base_field_type),
                raise_error_with_notfilled, package_name, level_of_recursion + 1),
             LAMBDA resolved : asdict(resolved))

\* a Case 1 that never asks for a filled record
_resolve_dataclass_from_path_lenient(field, base_field_type, path_val, raise_error_with_notfilled, package_name, level_of_recursion) ==
    IF is_notfilled(path_val) THEN NoneV
    ELSE IF path_val.k # "str" THEN Err("PathValueTypeError", path_val.k)
    ELSE Try(resolve_yaml_file_to_base_dataclass(path_val, resolve_type(base_field_type),
                FALSE, package_name, level_of_recursion + 1),
             LAMBDA resolved : asdict(resolved))

\* Case 1: the value resolved from '{field}_path_to_yaml_file'
_resolve_dataclass_from_path(field, base_field_type, path_val, raise_error_with_notfilled, package_name, level_of_recursion) ==
    IF is_notfilled(path_val) THEN NoneV
    ELSE IF path_val.k # "str" THEN Err("PathValueTypeError", path_val.k)
    ELSE Try(resolve_yaml_file_to_base_dataclass(path_val, resolve_type(base_field_type),
                raise_error_with_notfilled, package_name, level_of_recursion + 1),
             LAMBDA resolved : asdict(resolved))

\* the body of the try of Case 2a for one union arm: the pruned dict, or
\* the exception raised
DirectTrial(dataclass_type, val, raise_error_with_notfilled, package_name, level_of_recursion) ==
    Try(resolve_extended_object_to_dict(val, resolve_type(dataclass_type),
            raise_error_with_notfilled, package_name, level_of_recursion + 1),
        LAMBDA resolved_val_temp :
            Try(from_dict_with_union_handling(dataclass_type,
                    remove_notfilled_values(resolved_val_temp)),
                LAMBDA checked : remove_notfilled_values(resolved_val_temp)))

\* the for loop of Case 2a, from arm i on; an arm that raises is skipped and
\* an arm that succeeds assigns resolved_val
DirectLoop(dataclass_type_list, i, resolved_val, val, raise_error_with_notfilled, package_name, level_of_recursion) ==
    IF i > Len(dataclass_type_list) THEN resolved_val
    ELSE DirectLoop(dataclass_type_list, i + 1,
                    Assigned(resolved_val,
                             DirectTrial(dataclass_type_list[i], val,
                                         raise_error_with_notfilled, package_name,
                                         level_of_recursion)),
                    val, raise_error_with_notfilled, package_name, level_of_recursion)

\* Case 2a: val is a dataclass instance
_try_resolve_direct_dataclass_value(field, base_field_type, val, raise_error_with_notfilled, package_name, level_of_recursion) ==
    IF is_notfilled(val) THEN NoneV
    ELSE IF ~is_dataclass(val) THEN NoneV
    ELSE RaiseIfNone(DirectLoop(extract_union_types(base_field_type), 1, NoneV, val,
                                raise_error_with_notfilled, package_name, level_of_recursion),
                     Err("DataclassUnionResolutionError", field.name))

\* the body of the try of Case 2b for one dataclass arm
ProviderTrial(dataclass_type, val, raise_error_with_notfilled, package_name, level_of_recursion) ==
    Try(resolve_yaml_file_to_base_dataclass(get_yaml_file_path(val),
            resolve_type(dataclass_type), raise_error_with_notfilled, package_name,
            level_of_recursion + 1),
        LAMBDA resolved :
            Try(asdict(resolved), LAMBDA resolved_val_temp :
                Try(dacite_from_dict(dataclass_type, resolved_val_temp, FALSE),
                    LAMBDA checked : resolved_val_temp)))

\* the for loop of Case 2b, from arm i on; arms that are no dataclass are skipped
ProviderLoop(dataclass_type_list, i, resolved_val, val, raise_error_with_notfilled, package_name, level_of_recursion) ==
    IF i > Len(dataclass_type_list) THEN resolved_val
    ELSE IF ~is_dataclass_type(dataclass_type_list[i])
    THEN ProviderLoop(dataclass_type_list, i + 1, resolved_val, val,
                      raise_error_with_notfilled, package_name, level_of_recursion)
    ELSE ProviderLoop(dataclass_type_list, i + 1,
                      Assigned(resolved_val,
                               ProviderTrial(dataclass_type_list[i], val,
                                             raise_error_with_notfilled, package_name,
                                             level_of_recursion)),
                      val, raise_error_with_notfilled, package_name, level_of_recursion)

\* Case 2b: val has get_yaml_file_path
_try_resolve_yaml_provider_value(field, base_field_type, val, raise_error_with_notfilled, package_name, level_of_recursion) ==
    IF is_notfilled(val) THEN NoneV
    ELSE IF is_dataclass(val) THEN NoneV
    ELSE IF ~has_get_yaml_file_path(val) THEN Err("MissingYamlPathProviderError", field.name)
    ELSE RaiseIfNone(ProviderLoop(extract_union_types(base_field_type), 1, NoneV, val,
                                  raise_error_with_notfilled, package_name,
                                  level_of_recursion),
                     Err("UnresolvedResolvedValError", field.name))

\* the body of the try of Case 3 for one union arm; always resolved with
\* raise_error_with_notfilled=False
OverwriteTrial(dataclass_type, overwrite_val, package_name, level_of_recursion) ==
    Try(resolve_extended_object_to_dict(overwrite_val,
            make_partial_dataclass_notfilled(dataclass_type), FALSE, package_name,
            level_of_recursion + 1),
        LAMBDA overwrite_resolved_val_temp :
            remove_notfilled_values(overwrite_resolved_val_temp))

\* the for loop of Case 3, from arm i on
OverwriteLoop(dataclass_type_list, i, overwrite_resolved_val, overwrite_val, package_name, level_of_recursion) ==
    IF i > Len(dataclass_type_list) THEN overwrite_resolved_val
    ELSE OverwriteLoop(dataclass_type_list, i + 1,
                       Assigned(overwrite_resolved_val,
                                OverwriteTrial(dataclass_type_list[i], overwrite_val,
                                               package_name, level_of_recursion)),
                       overwrite_val, package_name, level_of_recursion)

\* Case 3: '{field}_overwrite'
_try_resolve_overwrite_value(field, base_field_type, overwrite_val, package_name, level_of_recursion) ==
    IF is_notfilled(overwrite_val) THEN NoneV
    ELSE IF ~is_dataclass(overwrite_val) THEN Err("OverwriteValueTypeError", field.name)
    ELSE RaiseIfNone(OverwriteLoop(extract_union_types(base_field_type), 1, NoneV,
                                   overwrite_val, package_name, level_of_recursion),
                     Err("OverwriteUnionResolutionError", field.name))

\* val, path_val and overwrite_val as the function reads them off extended_obj
FieldVal(extended_obj, field) == getattr(extended_obj, field.name)
FieldPathVal(extended_obj, field) == getattr(extended_obj, field.name \o "_path_to_yaml_file")
FieldOverwriteVal(extended_obj, field) == getattr(extended_obj, field.name \o "_overwrite")

\* value_base of the function
ValueBase(val) == ~is_notfilled(val) /\ ~is_dataclass(val) /\ ~has_get_yaml_file_path(val)

\* a test of the branch that looks at the declared type only
IsBaseFieldByType(extended_obj, field) == ~is_or_contains_dataclass(field.type)

\* the test of the branch of base (non-dataclass) fields
IsBaseField(extended_obj, field) ==
    ~(is_or_contains_dataclass(field.type) /\ ~ValueBase(FieldVal(extended_obj, field)))

\* the branch of base fields: the assert, then return val
BaseFieldReturn(extended_obj, field, raise_error_with_notfilled) ==
    IF is_notfilled(FieldVal(extended_obj, field)) /\ raise_error_with_notfilled
    THEN Err("AssertionError", field.name)
    ELSE FieldVal(extended_obj, field)

\* a return without the check
FinalReturnUnchecked(extended_obj, field, raise_error_with_notfilled, final_val) == final_val

\* the end of the function: the check of val and path_val, then the return
FinalReturn(extended_obj, field, raise_error_with_notfilled, final_val) ==
    IF /\ FieldVal(extended_obj, field) = notfilled
       /\ FieldPathVal(extended_obj, field) = notfilled
       /\ raise_error_with_notfilled
    THEN Err("MissingValueOrPathError", field.name)
    ELSE final_val

resolve_extended_object_to_dict_one_field(extended_obj, field, raise_error_with_notfilled, package_name, level_of_recursion) ==
    IF IsBaseField(extended_obj, field)
    THEN BaseFieldReturn(extended_obj, field, raise_error_with_notfilled)
    ELSE
    Try(_resolve_dataclass_from_path(field, field.type, FieldPathVal(extended_obj, field),
            raise_error_with_notfilled, package_name, level_of_recursion),
        LAMBDA part1 :
    Try(_try_resolve_direct_dataclass_value(field, field.type, FieldVal(extended_obj, field),
            raise_error_with_notfilled, package_name, level_of_recursion),
        LAMBDA part2 :
    Try(_try_resolve_yaml_provider_value(field, field.type, FieldVal(extended_obj, field),
            raise_error_with_notfilled, package_name, level_of_recursion),
        LAMBDA part3 :
    Try(_try_resolve_overwrite_value(field, field.type, FieldOverwriteVal(extended_obj, field),
            package_name, level_of_recursion),
        LAMBDA part4 :
            FinalReturn(extended_obj, field, raise_error_with_notfilled,
                _merge_if_present(_merge_if_present(_merge_if_present(
                    _merge_if_present(EmptyDict, part1), part2), part3), part4))))))

resolve_extended_dict_to_dict_allow_notfilled(dicto, base_cls, raise_error_with_nones, package_name) ==
    IF dicto = NoneV \/ dicto = EmptyDict THEN EmptyDict
    ELSE Try(make_partial_dataclass_with_optional_paths(base_cls), LAMBDA extended_cls :
         Try(from_dict_with_union_handling(extended_cls, dicto), LAMBDA extended_obj :
             resolve_extended_object_to_dict(extended_obj,
                                             make_partial_dataclass_notfilled(base_cls),
                                             raise_error_with_nones, package_name, 0)))

resolve_yaml_file_to_dict_allow_notfilled(yaml_path, base_cls, raise_error_with_nones, package_name) ==
    Try(resolve_package_path(yaml_path, package_name), LAMBDA file_name :
    Try(ReadYaml(yaml_path, file_name), LAMBDA loaded :
        resolve_extended_dict_to_dict_allow_notfilled(loaded, base_cls,
                                                      raise_error_with_nones, package_name)))

-----------------------------------------------------------------------------
(* parser.py: Parsley                                                       *)
(* parser.py calls the resolver of its own package, parsley_coco; on the    *)
(* non-strict calls made here its functions return what the functions of    *)
(* the same names above return.                                             *)

\* args_dataclass_name(): the instance made of the defaults, or the TypeError
\* of a field without default
Instantiate(cls) ==
    IF \E i \in DOMAIN cls.fields : cls.fields[i].default = Missing
    THEN Err("TypeError", cls.name)
    ELSE Obj(cls.name, [name \in {cls.fields[i].name : i \in DOMAIN cls.fields} |->
                           (CHOOSE field \in SeqToSet(cls.fields) : field.name = name).default])

\* an IOError raised under the 'with open(...)' becomes a ValueError
IOErrorToValueError(raised, config_file_path) ==
    IF IsErr(raised) /\ raised.e \in {"YamlFileReadError", "FileNotFoundError"}
    THEN Err("ValueError", config_file_path.s)
    ELSE raised

\* what parse_config_file_arguments assigns to self.args_config_file
parse_config_file_arguments(args_dataclass_name, config_file_path) ==
    IF config_file_path.s \notin DOMAIN Files THEN Err("ValueError", config_file_path.s)
    ELSE IOErrorToValueError(
            Try(resolve_yaml_file_to_dict_allow_notfilled(config_file_path, args_dataclass_name,
                                                          FALSE, NoneV),
                LAMBDA args_config : remove_notfilled_values(args_config)),
            config_file_path)

\* extra_args_dict of parse_arguments_with_command_line_args
ExtraArgsDict(args_dataclass_name, extra_args) ==
    IF extra_args = NoneV THEN EmptyDict
    ELSE Try(resolve_extended_object_to_dict(extra_args,
                make_partial_dataclass_with_optional_paths(args_dataclass_name), FALSE, NoneV, 0),
             LAMBDA extra_args_dict : remove_notfilled_values(extra_args_dict))

\* first_merged_args
FirstMergedArgs(args_dataclass_name, extra_args, args_command_line) ==
    Try(ExtraArgsDict(args_dataclass_name, extra_args), LAMBDA extra_args_dict :
        merge_nested_dicts(IF args_command_line = NoneV THEN EmptyDict ELSE args_command_line,
                           extra_args_dict))

\* config_file_path after the look-up of 'config_file_name'
ConfigFilePath(config_file_path, first_merged_args) ==
    IF config_file_path = NoneV /\ "config_file_name" \in DOMAIN first_merged_args.d
    THEN first_merged_args.d["config_file_name"]
    ELSE config_file_path

\* asdict(self.args_dataclass_name()), a TypeError becoming a ValueError
DefaultArgs(args_dataclass_name) ==
    IF IsErr(Instantiate(args_dataclass_name)) THEN Err("ValueError", args_dataclass_name.name)
    ELSE asdict(Instantiate(args_dataclass_name))

\* what the head of the function assigns to self.args_config_file: the
\* defaults when no configuration file is named, and else what
\* parse_config_file_arguments reads
ArgsConfigFile(args_dataclass_name, config_file_path, first_merged_args) ==
    IF IsErr(first_merged_args) THEN first_merged_args
    ELSE IF ConfigFilePath(config_file_path, first_merged_args) = NoneV
    THEN DefaultArgs(args_dataclass_name)
    ELSE parse_config_file_arguments(args_dataclass_name,
                                     ConfigFilePath(config_file_path, first_merged_args))

\* a mutant of DecodeMerged: the first dacite.from_dict is returned
DecodeMergedOnce(args_dataclass_name, merged) ==
    dacite_from_dict(args_dataclass_name, merged, TRUE)

\* from the first dacite.from_dict to the return
DecodeMerged(args_dataclass_name, merged) ==
    Try(dacite_from_dict(args_dataclass_name, merged, TRUE), LAMBDA dataclass_args :
    Try(resolve_extended_dict_to_dict_allow_notfilled(asdict(dataclass_args),
                                                      args_dataclass_name, FALSE, NoneV),
        LAMBDA new_dict :
            dacite_from_dict(args_dataclass_name, remove_notfilled_values(new_dict), TRUE)))

-----------------------------------------------------------------------------
(* Value trees given to the merger and to the pruner                       *)

\* the marker of a key a tree does not have
Absent == [k |-> "absent"]

\* the dict holding the entries of record r that are not Absent
MkDict(r) == Dict([key \in {x \in DOMAIN r : r[x] # Absent} |-> r[key]])

Scalars == {IntV(i) : i \in 1..MaxVal}
OneLists == {List(<<IntV(i)>>) : i \in 1..MaxVal}

MergeLeaves == Scalars \cup OneLists
MergeInner == {MkDict([x |-> vx, y |-> vy]) :
                  vx \in {Absent, EmptyDict, Dict([p |-> IntV(1)])} \cup MergeLeaves,
                  vy \in {Absent} \cup MergeLeaves}
MergeTrees == {MkDict([a |-> va, b |-> vb]) :
                  va \in {Absent} \cup MergeLeaves \cup MergeInner,
                  vb \in {Absent} \cup Scalars}

PruneLeaves == Scalars \cup
               {notfilled, NoneV, List(<<IntV(1)>>), List(<<notfilled>>),
                List(<<IntV(1), notfilled>>), List(<<Dict([p |-> notfilled])>>)}
PruneDeep == {EmptyDict, Dict([p |-> notfilled]), Dict([p |-> IntV(1)])}
PruneInner == {MkDict([x |-> vx, y |-> vy]) :
                  vx \in {Absent} \cup PruneLeaves \cup PruneDeep,
                  vy \in {Absent, notfilled, IntV(1)}}
PruneTrees == {MkDict([a |-> va, b |-> vb]) :
                  va \in {Absent} \cup PruneLeaves \cup PruneInner,
                  vb \in {Absent, notfilled, IntV(1), EmptyDict}}

-----------------------------------------------------------------------------
(* The merger and the pruner applied to a value tree                       *)

InitTree ==
    /\ pc = "call"
    /\ \/ fn = "merge_nested_dicts" /\ args \in MergeTrees \X MergeTrees
       \/ fn = "remove_notfilled_values" /\ args \in {<<d>> : d \in PruneTrees}
    /\ ret = Unset
    /\ errors = <<>>
    /\ final_resolved_val = Unset
    /\ args_config_file = Unset
    /\ merged_args = Unset
    /\ yaml_path_resolved = Unset
    /\ yaml_data = Unset
    /\ stack = <<>>
    /\ _processed = <<>>
    /\ _partial_cache = <<>>
    /\ returned = <<>>

MergeCall ==
    /\ pc = "call" /\ fn = "merge_nested_dicts"
    /\ ret' = merge_nested_dicts(args[1], args[2])
    /\ pc' = "done"
    /\ UNCHANGED <<yaml_path_resolved, yaml_data, stack, _processed, _partial_cache, returned,
                   fn, args, errors, final_resolved_val, args_config_file, merged_args>>

PruneCall ==
    /\ pc = "call" /\ fn = "remove_notfilled_values"
    /\ ret' = remove_notfilled_values(args[1])
    /\ pc' = "done"
    /\ UNCHANGED <<yaml_path_resolved, yaml_data, stack, _processed, _partial_cache, returned,
                   fn, args, errors, final_resolved_val, args_config_file, merged_args>>

NextTree == MergeCall \/ PruneCall

SpecTree == InitTree /\ [][NextTree]_vars

-----------------------------------------------------------------------------
(* Claims about the merger and the pruner                                  *)

RECURSIVE MergeLaw(_, _, _)
\* r is the merge of low and high as the claim C2 describes it
MergeLaw(low, high, r) ==
    /\ IsDict(r)
    /\ DOMAIN r.d = DOMAIN low.d \cup DOMAIN high.d
    /\ \A key \in DOMAIN r.d :
          IF key \notin DOMAIN high.d THEN r.d[key] = low.d[key]
          ELSE IF key \in DOMAIN low.d /\ IsDict(low.d[key]) /\ IsDict(high.d[key])
               THEN MergeLaw(low.d[key], high.d[key], r.d[key])
               ELSE r.d[key] = high.d[key]

\* C2: merge(low, high) has exactly the keys of low and high; a key only in
\* low keeps low's value; a key of high whose two values are mappings holds
\* their recursive merge; any other key of high holds high's value outright,
\* so a sequence replaces whatever low had and is never concatenated.
C2_MergeLaw ==
    (pc = "done" /\ fn = "merge_nested_dicts") => MergeLaw(args[1], args[2], ret)

\* a merge was done where a nested mapping met a nested mapping with a
\* sibling only low has, and a sequence of high met a sequence of low
C2_Witness ==
    /\ pc = "done" /\ fn = "merge_nested_dicts"
    /\ args[1] = Dict([a |-> Dict([x |-> List(<<IntV(1)>>), y |-> IntV(1)]), b |-> IntV(1)])
    /\ args[2] = Dict([a |-> Dict([x |-> List(<<IntV(2)>>)])])
    /\ ret = Dict([a |-> Dict([x |-> List(<<IntV(2)>>), y |-> IntV(1)]), b |-> IntV(1)])

RECURSIVE NoSentinel(_)
\* no sentinel at any depth of v, inside mappings and inside sequences
NoSentinel(v) ==
    CASE v.k = "nf" -> FALSE
      [] v.k = "dict" -> \A key \in DOMAIN v.d : NoSentinel(v.d[key])
      [] v.k = "list" -> \A i \in DOMAIN v.l : NoSentinel(v.l[i])
      [] OTHER -> TRUE

RECURSIVE NoEmptyNested(_)
\* no mapping nested in v is empty
NoEmptyNested(v) ==
    CASE v.k = "dict" -> \A key \in DOMAIN v.d :
                            /\ IsDict(v.d[key]) => NonEmpty(v.d[key])
                            /\ NoEmptyNested(v.d[key])
      [] v.k = "list" -> \A i \in DOMAIN v.l :
                            /\ IsDict(v.l[i]) => NonEmpty(v.l[i])
                            /\ NoEmptyNested(v.l[i])
      [] OTHER -> TRUE

\* C5: the pruned tree holds no sentinel at any depth, sequences included,
\* and no empty nested mapping.
C5_PruneComplete ==
    (pc = "done" /\ fn = "remove_notfilled_values") =>
        NoSentinel(ret) /\ NoEmptyNested(ret)

-----------------------------------------------------------------------------
(* The decoder applied to a schema and raw data                            *)

\* the records of tests/test_readme.py and tests_parsley/test_literal_enum_member.py
OptionA == TData("OptionA", <<Field("discriminator", TLiteral(<<StrV("A")>>), Missing),
                              Field("value", TInt, Missing)>>)
OptionB == TData("OptionB", <<Field("discriminator", TLiteral(<<StrV("B")>>), Missing),
                              Field("name", TStr, Missing)>>)
\* two records without a discriminator, the second accepting what the first accepts
PointX == TData("PointX", <<Field("x", TInt, Missing)>>)
PointXY == TData("PointXY", <<Field("x", TInt, Missing), Field("y", TInt, IntV(1))>>)

\* the unions of the two discriminated records, in every declared order,
\* alone and with int as in Config4
DiscriminatedUnions ==
    {TUnion(<<OptionA, OptionB>>), TUnion(<<OptionB, OptionA>>),
     TUnion(<<OptionA, OptionB, TInt>>), TUnion(<<TInt, OptionB, OptionA>>)}

Config4(union) == TData("Config4", <<Field("option", union, IntV(0))>>)

DecodeUnions ==
    DiscriminatedUnions \cup
    {TUnion(<<PointX, PointXY>>), TUnion(<<PointXY, PointX>>),
     TUnion(<<TInt, TStr>>), TUnion(<<TStr, TInt>>), TUnion(<<TInt, TNone>>),
     TUnion(<<TLiteral(<<StrV("A")>>), TLiteral(<<StrV("B")>>)>>)}

\* the Enum of tests_parsley/test_literal_enum_member.py, and an Enum with
\* int values
Kind == TEnum("Kind", <<"A", "B">>, <<>>)

\* leaves of enumerated kind: an Enum, Literals of its members (the union of
\* the two is the type of UsesLiteralEnumMember.kind) and Literals of scalars
Level == TEnum("Level", <<"1", "2">>, <<>>)

EnumeratedLeaves ==
    {Kind, Level, TLiteral(<<EnumV("Level", "1")>>), TLiteral(<<EnumV("Kind", "A")>>), TLiteral(<<EnumV("Kind", "A"), EnumV("Kind", "B")>>),
     TUnion(<<TLiteral(<<EnumV("Kind", "A")>>), TLiteral(<<EnumV("Kind", "B")>>)>>),
     TLiteral(<<StrV("A")>>), TLiteral(<<StrV("a"), IntV(1)>>)}

DecodeSchemas ==
    DecodeUnions \cup {Config4(u) : u \in DiscriminatedUnions} \cup {OptionA, PointXY, TInt}
    \cup EnumeratedLeaves

OptionData == {MkDict([discriminator |-> vd, value |-> vv, name |-> vn]) :
                  vd \in {Absent, StrV("A"), StrV("B"), StrV("C")},
                  vv \in {Absent, StrV("a")} \cup Scalars,
                  vn \in {Absent, StrV("n"), IntV(1)}}
PointData == {MkDict([x |-> vx, y |-> vy]) :
                  vx \in {Absent, StrV("a")} \cup Scalars, vy \in {Absent} \cup Scalars}
ScalarData == Scalars \cup {StrV("A"), StrV("C"), StrV("1"), StrV("a"), NoneV, notfilled}

\* what each schema is given to decode
DecodeData(schema) ==
    IF schema.t = "dataclass" /\ schema.name = "Config4"
    THEN {Dict([option |-> v]) : v \in OptionData \cup Scalars}
    ELSE OptionData \cup PointData \cup ScalarData

InitDecode ==
    /\ pc = "call"
    /\ fn = "from_dict_with_union_handling"
    /\ \E schema \in DecodeSchemas : \E data \in DecodeData(schema) :
          args = <<schema, data>>
    /\ ret = Unset
    /\ errors = <<>>
    /\ final_resolved_val = Unset
    /\ args_config_file = Unset
    /\ merged_args = Unset
    /\ yaml_path_resolved = Unset
    /\ yaml_data = Unset
    /\ stack = <<>>
    /\ _processed = <<>>
    /\ _partial_cache = <<>>
    /\ returned = <<>>

\* a target that is no Union: the call runs to its end
DecodeCall ==
    /\ pc = "call" /\ fn = "from_dict_with_union_handling"
    /\ ~is_union(args[1])
    /\ ret' = from_dict_with_union_handling(args[1], args[2])
    /\ pc' = "done"
    /\ UNCHANGED <<yaml_path_resolved, yaml_data, stack, _processed, _partial_cache, returned,
                   fn, args, errors, final_resolved_val, args_config_file, merged_args>>

\* a Union target: one pass of the loop, the next member being tried
UnionTry ==
    /\ pc \in {"call", "loop"} /\ fn = "from_dict_with_union_handling"
    /\ is_union(args[1])
    /\ Len(errors) < Len(args[1].args)
    /\ LET step == UnionStep(args[1].args, args[2], errors)
       IN /\ errors' = step.errors
          /\ ret' = step.ret
          /\ pc' = IF step.done THEN "done" ELSE "loop"
    /\ UNCHANGED <<yaml_path_resolved, yaml_data, stack, _processed, _partial_cache, returned,
                   fn, args, final_resolved_val, args_config_file, merged_args>>

\* a Union target: every member failed, UnionParsingError is raised
UnionRaise ==
    /\ pc = "loop" /\ fn = "from_dict_with_union_handling"
    /\ is_union(args[1])
    /\ Len(errors) >= Len(args[1].args)
    /\ ret' = Err("UnionParsingError", errors)
    /\ pc' = "done"
    /\ UNCHANGED <<yaml_path_resolved, yaml_data, stack, _processed, _partial_cache, returned,
                   fn, args, errors, final_resolved_val, args_config_file, merged_args>>

NextDecode == DecodeCall \/ UnionTry \/ UnionRaise

SpecDecode == InitDecode /\ [][NextDecode]_vars

-----------------------------------------------------------------------------
(* Claims about the decoder                                                *)

\* the first i members of the union all fail on data, and errs lists their
\* failures one per member in the order of the members
FailuresInOrder(union_types, data, errs) ==
    /\ Len(errs) <= Len(union_types)
    /\ \A i \in DOMAIN errs :
          /\ errs[i].type = union_types[i]
          /\ errs[i].error = from_dict_with_union_handling(union_types[i], data)
          /\ IsErr(errs[i].error)

\* C7: on a Union schema the members are tried in declared order; the result
\* is the decode of the first member that succeeds and no later member is
\* tried; an error is raised only when every member fails and it carries one
\* failure reason per member, in trial order.
C7_UnionFirstSuccess ==
    (fn = "from_dict_with_union_handling" /\ is_union(args[1])) =>
        LET union_types == args[1].args
            data == args[2]
        IN /\ FailuresInOrder(union_types, data, errors)
           /\ (pc = "done" /\ ~IsErr(ret)) =>
                 /\ Len(errors) < Len(union_types)
                 /\ ret = from_dict_with_union_handling(union_types[Len(errors) + 1], data)
           /\ (pc = "done" /\ IsErr(ret)) =>
                 /\ ret.e = "UnionParsingError"
                 /\ Len(ret.m) = Len(union_types)
                 /\ FailuresInOrder(union_types, data, ret.m)
           /\ pc # "done" => ret = Unset

\* a union whose two members both accept the data returned the first one's
\* decode after one trial
C7_Witness ==
    /\ pc = "done" /\ fn = "from_dict_with_union_handling"
    /\ args[1] = TUnion(<<PointX, PointXY>>)
    /\ args[2] = Dict([x |-> IntV(2)])
    /\ ~IsErr(from_dict_with_union_handling(PointXY, args[2]))
    /\ errors = <<>>
    /\ ret = Obj("PointX", [x |-> IntV(2)])

\* the literal of the discriminator field of a member
DiscriminatorOf(member) == member.fields[1].type.vals[1]

\* data is a mapping with member's discriminator that otherwise fits member
FitsMember(member, data) ==
    /\ IsDict(data)
    /\ \A i \in DOMAIN member.fields : member.fields[i].name \in DOMAIN data.d
    /\ data.d["discriminator"] = DiscriminatorOf(member)
    /\ is_instance(data.d[member.fields[2].name], member.fields[2].type)

\* the instance of member that data decodes to
InstanceOf(member, data) ==
    Obj(member.name, [key \in {member.fields[i].name : i \in DOMAIN member.fields}
                         |-> data.d[key]])

\* decoding data against the union gave result
DiscriminatorLaw(data, result) ==
    /\ \A member \in {OptionA, OptionB} :
          FitsMember(member, data) => result = InstanceOf(member, data)
    /\ \A member \in {OptionA, OptionB} :
          (result.k = "obj" /\ result.c = member.name) =>
              /\ IsDict(data) /\ "discriminator" \in DOMAIN data.d
              /\ data.d["discriminator"] = DiscriminatorOf(member)

\* C8: a mapping whose discriminator is member M's literal and that fits M
\* decodes to an instance of M for every declared order of the members, as
\* the schema itself or as the type of a field; nothing is decoded as a member
\* whose discriminator literal differs.
C8_Discriminator ==
    (pc = "done" /\ fn = "from_dict_with_union_handling") =>
        /\ args[1] \in DiscriminatedUnions => DiscriminatorLaw(args[2], ret)
        /\ (args[1].t = "dataclass" /\ args[1].name = "Config4" /\ ~IsErr(ret)) =>
              DiscriminatorLaw(args[2].d["option"], ret.a["option"])
        /\ (args[1].t = "dataclass" /\ args[1].name = "Config4" /\ IsErr(ret)) =>
              \A member \in {OptionA, OptionB} : ~FitsMember(member, args[2].d["option"])

\* a mapping of the second member, that also has the first member's field,
\* was decoded as the second member
C8_Witness ==
    /\ pc = "done" /\ fn = "from_dict_with_union_handling"
    /\ args[1] = TUnion(<<OptionA, OptionB>>)
    /\ args[2] = Dict([discriminator |-> StrV("B"), value |-> IntV(1), name |-> StrV("n")])
    /\ ret = Obj("OptionB", [discriminator |-> StrV("B"), name |-> StrV("n")])

-----------------------------------------------------------------------------
(* The resolver applied to one field of an extended object                 *)

\* the records of tests/test_readme.py: Config2, Config4 and AppConfig
Config2 == TData("Config2", <<Field("x", TInt, Missing),
                              Field("nested_config", NestedConfig, Missing)>>)
Config4Int == Config4(TUnion(<<OptionA, OptionB, TInt>>))
AppConfig == TData("AppConfig", <<Field("model", TUnion(<<ModelPreset, NestedConfig>>), Missing)>>)

ResolveTargets == {Config2, Config4Int, AppConfig}

\* the fields the resolver walks: those of a target, when the caller passes
\* the target itself, and those of its Partial-Sentinel schema
ResolveFields ==
    UNION {SeqToSet(fields(cls)) \cup SeqToSet(fields(make_partial_dataclass_notfilled(cls))) :
              cls \in ResolveTargets}

\* instances a nested_config or model attribute can hold
NestedObjects == {Obj("PartialNestedConfig_WithOptionalPath_NotFilled", [z |-> vz, w |-> vw]) :
                     vz \in {notfilled} \cup Scalars, vw \in {notfilled, IntV(1)}}
\* instances given as nested_config_overwrite
NestedOverwrites == {Obj("NestedConfig", [z |-> vz, w |-> vw]) :
                        vz \in {notfilled} \cup Scalars, vw \in {notfilled, IntV(2)}}
\* instances an option attribute can hold
OptionObjects ==
    {Obj("PartialOptionA_WithOptionalPath_NotFilled", [discriminator |-> vd, value |-> vv]) :
        vd \in {notfilled, StrV("A")}, vv \in {notfilled, IntV(1)}} \cup
    {Obj("PartialOptionB_WithOptionalPath_NotFilled", [discriminator |-> vd, name |-> vn]) :
        vd \in {notfilled, StrV("B")}, vn \in {notfilled, StrV("n")}}
\* instances given as option_overwrite
OptionOverwrites ==
    {Obj("OptionA", [discriminator |-> StrV("A"), value |-> vv]) : vv \in Scalars} \cup
    {Obj("OptionB", [discriminator |-> StrV("B"), name |-> StrV("n")]),
     Obj("PartialOptionA_WithOptionalPath_NotFilled",
         [discriminator |-> notfilled, value |-> IntV(2)])}

PathVals == {notfilled, NoneV, StrV("z1.yaml"), StrV("z1w1.yaml"), StrV("w1.yaml"),
             StrV("missing.yaml"), StrV("locked.yaml"), StrV("package://z1.yaml"),
             StrV("package://missing.yaml")}

\* the extended object whose three attributes of field name are given
Triplet(name, val, path_val, overwrite_val) ==
    Obj("Extended", (name :> val) @@ ((name \o "_path_to_yaml_file") :> path_val)
                    @@ ((name \o "_overwrite") :> overwrite_val))

\* the extended objects a field is resolved on
ExtendedObjects(field) ==
    CASE field.name = "x" ->
            {Obj("Extended", [x |-> v]) : v \in {notfilled, StrV("a")} \cup Scalars}
      [] field.name = "nested_config" ->
            {Triplet("nested_config", v, p, o) :
                v \in {notfilled, NoneV} \cup NestedObjects,
                p \in PathVals,
                o \in {notfilled, NoneV} \cup NestedOverwrites}
      [] field.name = "option" ->
            {Triplet("option", v, p, o) :
                v \in {notfilled, IntV(1)} \cup OptionObjects,
                p \in {notfilled, NoneV, StrV("a1.yaml")},
                o \in {notfilled} \cup OptionOverwrites}
      [] OTHER ->
            {Triplet("model", v, notfilled, o) :
                v \in {notfilled, EnumV("ModelPreset", "small"), EnumV("ModelPreset", "large")}
                      \cup NestedObjects,
                o \in {notfilled, Obj("NestedConfig", [z |-> IntV(2), w |-> notfilled])}}

PackageNames == {NoneV, StrV("pkg")}

InitResolve ==
    /\ pc = "call"
    /\ fn = "resolve_extended_object_to_dict_one_field"
    /\ \E field \in ResolveFields : \E extended_obj \in ExtendedObjects(field) :
       \E raise_error_with_notfilled \in BOOLEAN : \E package_name \in PackageNames :
          args = <<extended_obj, field, raise_error_with_notfilled, package_name>>
    /\ ret = Unset
    /\ errors = <<>>
    /\ final_resolved_val = Unset
    /\ args_config_file = Unset
    /\ merged_args = Unset
    /\ yaml_path_resolved = Unset
    /\ yaml_data = Unset
    /\ stack = <<>>
    /\ _processed = <<>>
    /\ _partial_cache = <<>>
    /\ returned = <<>>

\* what a step of the function does with the part it computed: an exception
\* leaves the function, anything else is merged into the accumulator
StepWith(base, part, next_pc) ==
    IF IsErr(part)
    THEN ret' = part /\ pc' = "done" /\ UNCHANGED final_resolved_val
    ELSE final_resolved_val' = _merge_if_present(base, part) /\ pc' = next_pc /\ UNCHANGED ret

\* the branch of base (non-dataclass) fields
BaseField ==
    /\ pc = "call" /\ fn = "resolve_extended_object_to_dict_one_field"
    /\ IsBaseField(args[1], args[2])
    /\ ret' = BaseFieldReturn(args[1], args[2], args[3])
    /\ pc' = "done"
    /\ UNCHANGED <<yaml_path_resolved, yaml_data, stack, _processed, _partial_cache, returned,
                   fn, args, errors, final_resolved_val, args_config_file, merged_args>>

\* Case 1: final_resolved_val = {} and the part of '{field}_path_to_yaml_file'
FromPath ==
    /\ pc = "call" /\ fn = "resolve_extended_object_to_dict_one_field"
    /\ ~IsBaseField(args[1], args[2])
    /\ StepWith(EmptyDict,
                _resolve_dataclass_from_path(args[2], args[2].type,
                    FieldPathVal(args[1], args[2]), args[3], args[4], 0),
                "direct")
    /\ UNCHANGED <<yaml_path_resolved, yaml_data, stack, _processed, _partial_cache, returned,
                   fn, args, errors, args_config_file, merged_args>>

\* Case 2a: the part of a val that is a dataclass instance
DirectValue ==
    /\ pc = "direct"
    /\ StepWith(final_resolved_val,
                _try_resolve_direct_dataclass_value(args[2], args[2].type,
                    FieldVal(args[1], args[2]), args[3], args[4], 0),
                "provider")
    /\ UNCHANGED <<yaml_path_resolved, yaml_data, stack, _processed, _partial_cache, returned,
                   fn, args, errors, args_config_file, merged_args>>

\* Case 2b: the part of a val that has get_yaml_file_path
YamlProvider ==
    /\ pc = "provider"
    /\ StepWith(final_resolved_val,
                _try_resolve_yaml_provider_value(args[2], args[2].type,
                    FieldVal(args[1], args[2]), args[3], args[4], 0),
                "overwrite")
    /\ UNCHANGED <<yaml_path_resolved, yaml_data, stack, _processed, _partial_cache, returned,
                   fn, args, errors, args_config_file, merged_args>>

\* Case 3: the part of '{field}_overwrite'
Overwrite ==
    /\ pc = "overwrite"
    /\ StepWith(final_resolved_val,
                _try_resolve_overwrite_value(args[2], args[2].type,
                    FieldOverwriteVal(args[1], args[2]), args[4], 0),
                "check")
    /\ UNCHANGED <<yaml_path_resolved, yaml_data, stack, _processed, _partial_cache, returned,
                   fn, args, errors, args_config_file, merged_args>>

\* the check of val and path_val, and the return
Return ==
    /\ pc = "check"
    /\ ret' = FinalReturn(args[1], args[2], args[3], final_resolved_val)
    /\ pc' = "done"
    /\ UNCHANGED <<yaml_path_resolved, yaml_data, stack, _processed, _partial_cache, returned,
                   fn, args, errors, final_resolved_val, args_config_file, merged_args>>

NextResolve == BaseField \/ FromPath \/ DirectValue \/ YamlProvider \/ Overwrite \/ Return

SpecResolve == InitResolve /\ [][NextResolve]_vars

-----------------------------------------------------------------------------
(* Properties of resolve_extended_object_to_dict_one_field                  *)

\* the call has returned (or raised) on a field that holds or may hold a record
ResolvedRecordField ==
    /\ pc = "done"
    /\ fn = "resolve_extended_object_to_dict_one_field"
    /\ ~IsBaseField(args[1], args[2])

\* the parts of the call in hand, each computed on its own
PathPart ==
    _resolve_dataclass_from_path(args[2], args[2].type, FieldPathVal(args[1], args[2]),
                                 args[3], args[4], 0)
DirectPart ==
    _try_resolve_direct_dataclass_value(args[2], args[2].type, FieldVal(args[1], args[2]),
                                        args[3], args[4], 0)
ProviderPart ==
    _try_resolve_yaml_provider_value(args[2], args[2].type, FieldVal(args[1], args[2]),
                                     args[3], args[4], 0)
OverwritePart ==
    _try_resolve_overwrite_value(args[2], args[2].type, FieldOverwriteVal(args[1], args[2]),
                                 args[4], 0)

\* a part that is None contributes nothing
Contribution(part) == IF part = NoneV THEN EmptyDict ELSE part

\* the value of a sub-field in the highest of the parts that has it
Highest(key) ==
    IF key \in DOMAIN Contribution(OverwritePart).d THEN Contribution(OverwritePart).d[key]
    ELSE IF key \in DOMAIN Contribution(ProviderPart).d THEN Contribution(ProviderPart).d[key]
    ELSE IF key \in DOMAIN Contribution(DirectPart).d THEN Contribution(DirectPart).d[key]
    ELSE Contribution(PathPart).d[key]

OnlyPath ==
    /\ FieldVal(args[1], args[2]) = notfilled
    /\ FieldOverwriteVal(args[1], args[2]) = notfilled
    /\ FieldPathVal(args[1], args[2]).k = "str"

\* the file of the path resolved on its own against the record schema of the field
ResolvedFile ==
    resolve_yaml_file_to_base_dataclass(FieldPathVal(args[1], args[2]),
                                        resolve_type(args[2].type), args[3], args[4], 0)

\* the dict d holds the attributes of the record obj: the same names, and under
\* each name the same value, a sentinel standing for a sentinel
SameRecord(d, obj) ==
    /\ IsDict(d) /\ is_dataclass(obj)
    /\ DOMAIN d.d = DOMAIN obj.a
    /\ \A name \in DOMAIN d.d :
          IF is_notfilled(obj.a[name]) THEN is_notfilled(d.d[name])
          ELSE d.d[name] = obj.a[name]

\* C4: a record field given only by <field>_path_to_yaml_file resolves to the
\* record that resolve_yaml_file_to_base_dataclass gives for that file against
\* the field's record schema (as the dict of that record), and raises what
\* that call raises.
C4_RecursiveFileRoundTrip ==
    (ResolvedRecordField /\ OnlyPath) =>
        IF IsErr(ResolvedFile) THEN ret = ResolvedFile
        ELSE SameRecord(ret, ResolvedFile)

C4_Witness ==
    /\ ResolvedRecordField /\ OnlyPath
    /\ args[3]
    /\ FieldPathVal(args[1], args[2]) = StrV("z1w1.yaml")
    /\ ResolvedFile = Obj("NestedConfig", [z |-> IntV(1), w |-> IntV(1)])
    /\ ret = Dict([z |-> IntV(1), w |-> IntV(1)])

\* direct value and path reference are both the sentinel
NoValueNoPath ==
    /\ FieldVal(args[1], args[2]) = notfilled
    /\ FieldPathVal(args[1], args[2]) = notfilled

\* what strict mode asks of a field that is given nothing
StrictOutcome ==
    IF args[3] THEN ret = Err("MissingValueOrPathError", args[2].name)
    ELSE ret = EmptyDict

\* the record decoded, non-strictly, from an extended object that gives
\* nothing for the field named name
DecodedWithout(cls, package_name) ==
    resolve_extended_object(Obj(cls.name \o "_WithOptionalPath", [x |-> IntV(1)]), cls, FALSE,
                            package_name, 0)

\* the final decode fills the field from the default of the schema, when
\* the schema has one for it
DefaultFills ==
    \A cls \in ResolveTargets : \A i \in DOMAIN cls.fields :
        cls.fields[i].name = args[2].name =>
            IF cls.fields[i].default = Missing
            THEN DecodedWithout(cls, args[4]) = Err("MissingValueError", args[2].name)
            ELSE /\ is_dataclass(DecodedWithout(cls, args[4]))
                 /\ getattr(DecodedWithout(cls, args[4]), args[2].name) = cls.fields[i].default

ArmTrial(i) ==
    DirectTrial(extract_union_types(args[2].type)[i], FieldVal(args[1], args[2]), args[3],
                args[4], 0)
Arms == DOMAIN extract_union_types(args[2].type)

\* C9 as stated: for a record-shaped direct value the part merged by Case 2a
\* is the one of the first arm, in declared order, whose trial succeeds.
C9_FirstMemberWins ==
    (ResolvedRecordField /\ is_dataclass(FieldVal(args[1], args[2])) /\ ~IsErr(ret)) =>
        \E i \in Arms :
            /\ ~IsErr(ArmTrial(i))
            /\ \A j \in Arms : j < i => IsErr(ArmTrial(j))
            /\ DirectPart = ArmTrial(i)

\* the sub-fields a record-shaped overwrite sets
SetByOverwrite ==
    {name \in DOMAIN FieldOverwriteVal(args[1], args[2]).a :
        ~is_notfilled(FieldOverwriteVal(args[1], args[2]).a[name])}

\* C10 as stated: every sub-field a record-shaped overwrite sets is in the
\* result with the overwrite's value, the other sub-fields keep the value of
\* the earlier steps, and an overwrite that is no record is an error.
C10_OverwriteApplied ==
    (ResolvedRecordField /\ ~is_notfilled(FieldOverwriteVal(args[1], args[2]))) =>
        IF ~is_dataclass(FieldOverwriteVal(args[1], args[2])) THEN IsErr(ret)
        ELSE ~IsErr(ret) =>
                /\ \A name \in SetByOverwrite :
                      /\ name \in DOMAIN ret.d
                      /\ ret.d[name] = FieldOverwriteVal(args[1], args[2]).a[name]
                /\ \A name \in DOMAIN ret.d \ SetByOverwrite :
                      ret.d[name] = merge_nested_dicts(
                                        merge_nested_dicts(Contribution(PathPart),
                                                           Contribution(DirectPart)),
                                        Contribution(ProviderPart)).d[name]

-----------------------------------------------------------------------------
(* Parsley.parse_arguments_with_command_line_args                           *)

\* the records of tests/test_readme.py and tests_parsley/test_parse_arguments.py
Config == TData("Config", <<Field("x", TInt, IntV(0)), Field("y", TStr, StrV("default"))>>)
C == TData("C", <<Field("x", TInt, IntV(4578)), Field("y", TStr, StrV("uio"))>>)
HOP == TData("HOP", <<Field("i", TInt, IntV(789)),
                      Field("b", C, Obj("C", [x |-> IntV(4578), y |-> StrV("uio")]))>>)

\* a record whose default is a preset naming its own file
PresetConfig == TData("PresetConfig",
                      <<Field("model", TUnion(<<ModelPreset, NestedConfig>>),
                              EnumV("ModelPreset", "small"))>>)

\* a record with a union of records that no discriminator tells apart
Point2D == TData("Point2D", <<Field("x", TInt, Missing), Field("y", TInt, Missing)>>)
Shape == TData("Shape", <<Field("point", TUnion(<<Point2D, PointX>>), Missing)>>)

ParseTargets == {Config, HOP, Config4Int, PresetConfig, Shape}

\* an instance of make_partial_dataclass_with_optional_paths(cls); the
\* attributes left out are notfilled
Extended(cls, attributes) == Obj("Partial" \o cls.name \o "_WithOptionalPath_NotFilled", attributes)

\* make_partial_dataclass_with_optional_paths(cls)(): every field left at its
\* default
NothingSpecified(cls) == Instantiate(make_partial_dataclass_with_optional_paths(cls))

ExtraArgs(cls) ==
    CASE cls = Config ->
            {NoneV, NothingSpecified(Config), Extended(Config, [y |-> StrV("from_extra")]), Extended(Config, [x |-> IntV(2)])}
      [] cls = HOP ->
            {NoneV, NothingSpecified(HOP), Extended(HOP, [i |-> IntV(2)]),
             Extended(HOP, [b |-> Extended(C, [x |-> IntV(2)])]),
             Extended(HOP, [b_overwrite |-> Obj("C", [x |-> IntV(2), y |-> StrV("uio")])])}
      [] cls = Shape ->
            {NoneV, NothingSpecified(Shape), Extended(Shape, [point |-> Extended(PointX, [x |-> IntV(2)])])}
      [] cls = PresetConfig ->
            {NoneV, NothingSpecified(PresetConfig),
             Extended(PresetConfig, [model |-> EnumV("ModelPreset", "large")]),
             Extended(PresetConfig, [model_overwrite |-> Obj("NestedConfig", [z |-> IntV(2), w |-> IntV(2)])])}
      [] OTHER ->
            {NoneV, NothingSpecified(Config4Int), Extended(Config4Int, [option |-> IntV(2)]),
             Extended(Config4Int,
                      [option |-> Extended(OptionA, [discriminator |-> StrV("A"),
                                                     value |-> IntV(2)])]),
             Extended(Config4Int,
                      [option_overwrite |-> Obj("OptionA", [discriminator |-> StrV("A"),
                                                            value |-> IntV(2)])])}

CommandLines(cls) ==
    CASE cls = Config ->
            {NoneV, Dict([x |-> IntV(2)]), Dict([y |-> StrV("cli")]),
             Dict([config_file_name |-> StrV("config.yaml")])}
      [] cls = HOP ->
            {NoneV, Dict([i |-> IntV(1)]), Dict([b |-> Dict([y |-> StrV("cli")])]),
             Dict([b |-> Dict([x |-> IntV(2)])])}
      [] cls = Shape ->
            {NoneV, Dict([point |-> Dict([x |-> IntV(0)])]),
             Dict([point |-> Dict([x |-> IntV(0), y |-> IntV(0)])])}
      [] cls = PresetConfig ->
            {NoneV, Dict([model |-> StrV("large")]), Dict([model |-> Dict([z |-> IntV(2)])]),
             Dict([model |-> Dict([w |-> IntV(0)])])}
      [] OTHER ->
            {NoneV, Dict([option |-> IntV(1)]), Dict([option |-> Dict([value |-> IntV(2)])]),
             Dict([option |-> Dict([discriminator |-> StrV("B"), name |-> StrV("n")])])}

ConfigFiles(cls) ==
    CASE cls = Config -> {NoneV, StrV("config.yaml"), StrV("missing.yaml")}
      [] cls = HOP -> {NoneV, StrV("hop.yaml")}
      [] cls = PresetConfig -> {NoneV, StrV("preset.yaml")}
      [] cls = Shape -> {NoneV, StrV("shape.yaml"), StrV("pointx.yaml")}
      [] OTHER -> {NoneV, StrV("option.yaml")}

InitParse ==
    /\ pc = "call"
    /\ fn = "parse_arguments_with_command_line_args"
    /\ \E args_dataclass_name \in ParseTargets :
       \E extra_args \in ExtraArgs(args_dataclass_name) :
       \E config_file_path \in ConfigFiles(args_dataclass_name) :
       \E args_command_line \in CommandLines(args_dataclass_name) :
          args = <<args_dataclass_name, extra_args, config_file_path, args_command_line>>
    /\ ret = Unset
    /\ errors = <<>>
    /\ final_resolved_val = Unset
    /\ args_config_file = Unset
    /\ merged_args = Unset
    /\ yaml_path_resolved = Unset
    /\ yaml_data = Unset
    /\ stack = <<>>
    /\ _processed = <<>>
    /\ _partial_cache = <<>>
    /\ returned = <<>>

\* an exception leaves the function; otherwise self.args_config_file is set
SetConfigFile(value) ==
    IF IsErr(value)
    THEN ret' = value /\ pc' = "done" /\ UNCHANGED args_config_file
    ELSE args_config_file' = value /\ pc' = "merge" /\ UNCHANGED ret

\* the head of the function: extra_args and the command line are merged, and
\* self.args_config_file is set
ConfigArguments ==
    /\ pc = "call" /\ fn = "parse_arguments_with_command_line_args"
    /\ SetConfigFile(ArgsConfigFile(args[1], args[3], FirstMergedArgs(args[1], args[2], args[4])))
    /\ UNCHANGED <<yaml_path_resolved, yaml_data, stack, _processed, _partial_cache, returned,
                   fn, args, errors, final_resolved_val, merged_args>>

\* self.merged_args = merge_nested_dicts(self.args_config_file, first_merged_args)
MergeArgs ==
    /\ pc = "merge"
    /\ merged_args' = merge_nested_dicts(args_config_file,
                                         FirstMergedArgs(args[1], args[2], args[4]))
    /\ pc' = "decode"
    /\ UNCHANGED <<yaml_path_resolved, yaml_data, stack, _processed, _partial_cache, returned,
                   fn, args, ret, errors, final_resolved_val, args_config_file>>

\* the decode, the second pass through the resolver and the final decode
DecodeArgs ==
    /\ pc = "decode"
    /\ ret' = DecodeMerged(args[1], merged_args)
    /\ pc' = "done"
    /\ UNCHANGED <<yaml_path_resolved, yaml_data, stack, _processed, _partial_cache, returned,
                   fn, args, errors, final_resolved_val, args_config_file, merged_args>>

NextParse == ConfigArguments \/ MergeArgs \/ DecodeArgs

SpecParse == InitParse /\ [][NextParse]_vars

\* what a value specifies: the attributes of a record that are filled
RECURSIVE Specified(_)
Specified(v) ==
    IF is_dataclass(v)
    THEN Dict([name \in {n \in DOMAIN v.a : ~is_notfilled(v.a[n])} |-> Specified(v.a[name])])
    ELSE v

\* high laid over low, leaf by leaf
RECURSIVE Layered(_, _)
Layered(low, high) ==
    IF IsDict(low) /\ IsDict(high)
    THEN Dict([key \in DOMAIN low.d \cup DOMAIN high.d |->
                  IF key \notin DOMAIN high.d THEN low.d[key]
                  ELSE IF key \notin DOMAIN low.d THEN high.d[key]
                  ELSE Layered(low.d[key], high.d[key])])
    ELSE high

\* the leaves each of the four sources specifies
DefaultSays == Specified(Instantiate(args[1]))
CommandLineSays ==
    IF args[4] = NoneV THEN EmptyDict
    ELSE Dict([key \in DOMAIN args[4].d \ {"config_file_name"} |-> args[4].d[key]])
ConfigFileSays ==
    IF args[3] # NoneV THEN Files[args[3].s]
    ELSE IF args[4] # NoneV /\ "config_file_name" \in DOMAIN args[4].d
    THEN Files[args[4].d["config_file_name"].s]
    ELSE EmptyDict
ExtraArgsSays ==
    IF args[2] = NoneV THEN EmptyDict
    ELSE LET given(name) == Layered(Specified(getattr(args[2], name)),
                                    Specified(getattr(args[2], name \o "_overwrite")))
             direct(name) == getattr(args[2], name)
             overwrite(name) == getattr(args[2], name \o "_overwrite")
         IN Dict([name \in {args[1].fields[i].name : i \in DOMAIN args[1].fields} \cap
                           {n \in {args[1].fields[i].name : i \in DOMAIN args[1].fields} :
                               ~is_notfilled(direct(n)) \/ ~is_notfilled(overwrite(n))} |->
                     IF is_notfilled(overwrite(name)) THEN Specified(direct(name))
                     ELSE IF is_notfilled(direct(name)) THEN Specified(overwrite(name))
                     ELSE given(name)])

\* every leaf of actual has the value expected gives it
RECURSIVE LeavesAgree(_, _)
LeavesAgree(actual, expected) ==
    IF IsDict(actual)
    THEN /\ IsDict(expected)
         /\ \A key \in DOMAIN actual.d :
               key \in DOMAIN expected.d /\ LeavesAgree(actual.d[key], expected.d[key])
    ELSE actual = expected

\* C1 as stated: every leaf of the record returned has the value of the
\* highest source that specifies it, in the order defaults < configuration
\* file < command line < extra_args; leaves a source leaves out come from
\* the next source below, siblings of a nested record included.
C1_Precedence ==
    (pc = "done" /\ fn = "parse_arguments_with_command_line_args" /\ ~IsErr(ret)) =>
        LeavesAgree(Specified(ret),
                    Layered(Layered(Layered(DefaultSays, ConfigFileSays), CommandLineSays),
                            ExtraArgsSays))

-----------------------------------------------------------------------------
(* Step A on the record-containing fields                                  *)

\* the file the path reference names, after the package rule
PathFile == resolve_package_path(FieldPathVal(args[1], args[2]), args[4])

\* the path reference is a string that names a file that can be read
PathReadable ==
    /\ FieldPathVal(args[1], args[2]).k = "str"
    /\ ~IsErr(PathFile)
    /\ PathFile.s \in DOMAIN Files

\* the content of the file bound to the declared type of the field: the
\* record itself, or the alternative of the union the content matches
BoundFile == from_dict_with_union_handling(args[2].type, Files[PathFile.s])

\* C11 as stated: on every record-containing field (a single record, an
\* optional record, a union of several records) whose path reference names a
\* readable file with content that fits the declared type, Step A (without
\* strict mode) yields the content bound to the alternative it matches.
C11_PathSeedsEveryRecordField ==
    (ResolvedRecordField /\ PathReadable /\ ~args[3] /\ is_dataclass(BoundFile)) =>
        /\ ~IsErr(PathPart)
        /\ PathPart = asdict(BoundFile)

-----------------------------------------------------------------------------
(* Leaves of enumerated kind                                               *)

\* the decoder has returned (or raised) on a Literal or an Enum given a plain scalar
EnumeratedLeafDecoded ==
    /\ pc = "done" /\ fn = "from_dict_with_union_handling"
    /\ args[1].t \in {"Literal", "Enum"}
    /\ args[2].k \in {"int", "str"}

\* the plain scalar an enumerated value is equal to: the value of a member,
\* the scalar itself
ScalarOf(enumerated) == IF enumerated.k = "enum" THEN MemberValue(enumerated) ELSE enumerated

\* the scalars equal, by value, to one of the enumerated values of a leaf
EnumeratedScalars(leaf) ==
    IF leaf.t = "Literal" THEN {ScalarOf(leaf.vals[i]) : i \in DOMAIN leaf.vals}
    ELSE {MemberValue(EnumV(leaf.name, leaf.members[i])) : i \in DOMAIN leaf.members}

\* what a leaf binds a scalar to: a Literal the scalar as it is, an Enum the
\* member whose value the scalar is
Bound(leaf, scalar) ==
    IF leaf.t = "Literal" THEN scalar
    ELSE CHOOSE member \in {EnumV(leaf.name, leaf.members[i]) : i \in DOMAIN leaf.members} :
            MemberValue(member) = scalar

-----------------------------------------------------------------------------
(* The fields a failed record decode names                                 *)

\* a required field of the record that is missing from the mapping, or whose
\* value the decoder cannot bind to the type of the field
FieldFails(field, data) ==
    /\ field.default = Missing
    /\ IF field.name \in DOMAIN data.d
       THEN IsErr(from_dict_with_union_handling(field.type, data.d[field.name]))
       ELSE TRUE

FailingFields(data_class, data) ==
    {data_class.fields[i].name : i \in {j \in DOMAIN data_class.fields :
                                           FieldFails(data_class.fields[j], data)}}

\* the fields the message of a raised error names
NamedFields(error) ==
    CASE error.e = "FieldUnionParsingError" -> SeqToSet(error.m)
      [] error.e \in {"WrongTypeError", "MissingValueError"} -> {error.m}
      [] OTHER -> {}

\* C13 as stated: when a mapping is decoded against a record schema and two
\* or more required fields fail to decode (wrong shape, no union member
\* matching, or missing), the error raised names every failing field.
C13_EveryFailingFieldNamed ==
    (/\ pc = "done" /\ fn = "from_dict_with_union_handling"
     /\ is_dataclass_type(args[1]) /\ IsDict(args[2])
     /\ Cardinality(FailingFields(args[1], args[2])) >= 2) =>
        /\ IsErr(ret)
        /\ FailingFields(args[1], args[2]) \subseteq NamedFields(ret)

-----------------------------------------------------------------------------
(* What the exhaustion errors of the resolver carry                        *)

\* the trial of arm i of Case 3 for the call in hand
OverwriteArmTrial(i) ==
    OverwriteTrial(extract_union_types(args[2].type)[i], FieldOverwriteVal(args[1], args[2]),
                   args[4], 0)

\* the failure reasons the message of an error enumerates: the errors list of
\* UnionParsingError; the exhaustion errors of the resolver are built from the
\* field and the value alone
Reasons(error) ==
    IF error.e = "UnionParsingError" THEN {error.m[i].error : i \in DOMAIN error.m}
    ELSE {}

\* C14 as stated: when the direct value or the overwrite matches no member of
\* the declared type of the field, the error raised to the caller enumerates
\* the failure reason of every member that was tried.
C14_ExhaustionAggregates ==
    /\ (ResolvedRecordField /\ IsErr(ret) /\ ret.e = "DataclassUnionResolutionError") =>
          \A i \in Arms : IsErr(ArmTrial(i)) /\ ArmTrial(i) \in Reasons(ret)
    /\ (ResolvedRecordField /\ IsErr(ret) /\ ret.e = "OverwriteUnionResolutionError") =>
          \A i \in Arms : IsErr(OverwriteArmTrial(i)) /\ OverwriteArmTrial(i) \in Reasons(ret)

-----------------------------------------------------------------------------
(* resolve_yaml_file_to_base_dataclass applied to a path                   *)

FilePaths ==
    {StrV(p) : p \in {"z1.yaml", "z1w1.yaml", "w1.yaml", "empty.yaml", "outer.yaml",
                      "both.yaml", "missing.yaml", "locked.yaml", "package://z1.yaml",
                      "package://missing.yaml", "package:///z1.yaml"}}

FileTargets == {NestedConfig, Config2}

FilePackageNames == PackageNames \cup {StrV("")}

InitFile ==
    /\ pc = "call"
    /\ fn = "resolve_yaml_file_to_base_dataclass"
    /\ \E yaml_path \in FilePaths : \E base_cls \in FileTargets :
       \E raise_error_with_nones \in BOOLEAN : \E package_name \in FilePackageNames :
          args = <<yaml_path, base_cls, raise_error_with_nones, package_name>>
    /\ ret = Unset
    /\ errors = <<>>
    /\ final_resolved_val = Unset
    /\ args_config_file = Unset
    /\ merged_args = Unset
    /\ yaml_path_resolved = Unset
    /\ yaml_data = Unset
    /\ stack = <<>>
    /\ _processed = <<>>
    /\ _partial_cache = <<>>
    /\ returned = <<>>

\* an exception leaves the function, anything else is assigned to the local
\* variable and the function goes on
AssignOrRaise(value, local, next_pc) ==
    IF IsErr(value)
    THEN ret' = value /\ pc' = "done" /\ local' = local
    ELSE local' = value /\ pc' = next_pc /\ UNCHANGED ret

\* the first try: resolve_package_path, its ValueError raised again
ResolvePath ==
    /\ pc = "call" /\ fn = "resolve_yaml_file_to_base_dataclass"
    /\ AssignOrRaise(resolve_package_path(args[1], args[4]), yaml_path_resolved, "open")
    /\ UNCHANGED <<yaml_data, stack, _processed, _partial_cache, returned,
                   fn, args, errors, final_resolved_val, args_config_file, merged_args>>

\* the second try: open and yaml.safe_load, an OSError raised as YamlFileReadError
OpenFile ==
    /\ pc = "open"
    /\ AssignOrRaise(ReadYaml(args[1], yaml_path_resolved), yaml_data, "resolve")
    /\ UNCHANGED <<yaml_path_resolved, stack, _processed, _partial_cache, returned,
                   fn, args, errors, final_resolved_val, args_config_file,
                   merged_args>>

\* the return: resolve_dict_to_base_dataclass on what was loaded
ResolveData ==
    /\ pc = "resolve"
    /\ ret' = resolve_dict_to_base_dataclass(yaml_data, args[2], args[3], args[4], 0)
    /\ pc' = "done"
    /\ UNCHANGED <<yaml_path_resolved, yaml_data, stack, _processed, _partial_cache, returned,
                   fn, args, errors, final_resolved_val,
                   args_config_file, merged_args>>

NextFile == ResolvePath \/ OpenFile \/ ResolveData

SpecFile == InitFile /\ [][NextFile]_vars

\* the path begins with "package://"
PackagePrefixed == args[1].s \in DOMAIN PackageRelative

\* the path the rule asks for: packageRoot joined with what follows the
\* prefix, or the path as it is
RuleSays ==
    IF PackagePrefixed THEN StrV(os_path_join(args[4].s, PackageRelative[args[1].s]))
    ELSE args[1]

-----------------------------------------------------------------------------
(* A path reference whose file cannot be read                              *)

\* the path reference of the field is a string naming a file that is
\* missing or that open refuses to read
PathUnreadable ==
    /\ FieldPathVal(args[1], args[2]).k = "str"
    /\ ~IsErr(PathFile)
    /\ PathFile.s \notin DOMAIN Files

-----------------------------------------------------------------------------
(* A path reference that is no string                                      *)

\* the path reference of the field is neither the sentinel nor a string
PathNoString ==
    /\ ~is_notfilled(FieldPathVal(args[1], args[2]))
    /\ FieldPathVal(args[1], args[2]).k # "str"

\* C17 as stated: on a field whose declared type is or contains a record and
\* whose path reference is neither the sentinel nor a string (None included),
\* the call raises PathValueTypeError, before any file is opened and before
\* anything of the direct value or of the overwrite is merged.
C17_PathValueTypeError ==
    (/\ pc = "done" /\ fn = "resolve_extended_object_to_dict_one_field"
     /\ is_or_contains_dataclass(args[2].type)
     /\ PathNoString) =>
        /\ ret = Err("PathValueTypeError", FieldPathVal(args[1], args[2]).k)
        /\ final_resolved_val = Unset

\* C17: on a field whose declared type is or contains a record and whose
\* direct value is the sentinel, a record instance or a yaml provider, a
\* path reference that is neither the sentinel nor a string (None included)
\* makes the call raise PathValueTypeError at its first step: no file is
\* opened and nothing of the direct value or of the overwrite is merged. A
\* plain direct value is returned before the path reference is read.
C17_PathTypeChecked ==
    /\ (ResolvedRecordField /\ PathNoString) =>
          /\ ret = Err("PathValueTypeError", FieldPathVal(args[1], args[2]).k)
          /\ final_resolved_val = Unset
    /\ (/\ pc = "done" /\ fn = "resolve_extended_object_to_dict_one_field"
        /\ is_or_contains_dataclass(args[2].type)
        /\ IsBaseField(args[1], args[2])) =>
          ret = BaseFieldReturn(args[1], args[2], args[3])

\* nested_config_path_to_yaml_file is None
C17_Witness ==
    /\ ResolvedRecordField
    /\ args[2].name = "nested_config"
    /\ FieldPathVal(args[1], args[2]) = NoneV
    /\ is_dataclass(FieldVal(args[1], args[2]))
    /\ ret = Err("PathValueTypeError", "none")

-----------------------------------------------------------------------------
(* Fields whose schema is a leaf                                           *)

\* C18 as stated: on a field whose declared type holds no record, the call
\* returns the direct value unchanged when it is not the sentinel; when it
\* is the sentinel, strict mode raises MissingValueOrPathError for the field
\* and non-strict mode returns the sentinel.
C18_LeafField ==
    (/\ pc = "done" /\ fn = "resolve_extended_object_to_dict_one_field"
     /\ ~is_or_contains_dataclass(args[2].type)) =>
        IF is_notfilled(FieldVal(args[1], args[2])) /\ args[3]
        THEN ret = Err("MissingValueOrPathError", args[2].name)
        ELSE ret = FieldVal(args[1], args[2])

-----------------------------------------------------------------------------
(* alternative_dataclasses.py, call by call: the shadow derivations with   *)
(* their caches                                                            *)

\* a string annotation naming a class of the module: what get_type_hints
\* resolves to the class itself
TForward(name) == [t |-> "forward", name |-> name]

\* a record that refers to itself
Node == TData("Node", <<Field("value", TInt, Missing),
                        Field("next", TUnion(<<TForward("Node"), TNone>>), NoneV)>>)
\* two records that refer to each other
Ping == TData("Ping", <<Field("pong", TForward("Pong"), Missing)>>)
Pong == TData("Pong", <<Field("ping", TUnion(<<TForward("Ping"), TNone>>), NoneV)>>)
\* a record that holds the same record twice
Pair == TData("Pair", <<Field("left", NestedConfig, Missing),
                        Field("right", NestedConfig, Missing)>>)

\* a record with a list of records, a union with a record, a Literal leaf and
\* plain leaves
Shelf == TData("Shelf", <<Field("items", TGeneric("list", <<NestedConfig>>), Missing),
                          Field("either", TUnion(<<TInt, NestedConfig>>), IntV(0)),
                          Field("mode", TLiteral(<<StrV("a")>>), StrV("a")),
                          Field("label", TStr, Missing)>>)
\* a record with a collection of records annotated by its abstract type
Catalog == TData("Catalog",
                 <<Field("entries", TGeneric("Sequence", <<NestedConfig>>), Missing)>>)

\* a record that declares, after a record field, a field with the name of
\* one of its shadow fields
OverwriteAfter == TData("OverwriteAfter", <<Field("a", NestedConfig, Missing),
                                            Field("a_overwrite", TInt, IntV(7))>>)
\* the same with the field declared before the record field
PathBefore == TData("PathBefore", <<Field("a_path_to_yaml_file", TStr, Missing),
                                    Field("a", NestedConfig, Missing)>>)

ShadowTargets == {NestedConfig, Pair, Node, Ping, Shelf, Catalog, OverwriteAfter, PathBefore}
ShadowClasses == ShadowTargets \cup {Pong}
ShadowFns == {"make_dataclass_with_optional_paths_and_overwrite",
              "make_partial_dataclass_notfilled",
              "make_partial_dataclass"}

\* the interpreter's recursion limit, counted in derivations that have not returned
RecursionLimit == 3
\* the derivations one run asks for
MaxCalls == 3

\* the class a resolved hint names
ClassNamed(name) == CHOOSE cls \in ShadowClasses : cls.name = name

\* is_dataclass(tp) on a hint get_type_hints resolved
is_dataclass_hint(tp) == is_dataclass_type(tp) \/ tp.t = "forward"

RECURSIVE DataclassesIn(_)
RECURSIVE DataclassesInArgs(_)
\* the classes a hint hands to the derivation, in the order the type is walked
DataclassesIn(tp) ==
    CASE tp.t = "Literal" -> <<>>
      [] is_dataclass_hint(tp) -> <<tp.name>>
      [] is_union(tp) -> DataclassesInArgs(tp.args)
      [] tp.t = "generic" -> DataclassesInArgs(tp.args)
      [] OTHER -> <<>>

DataclassesInArgs(targs) ==
    IF targs = <<>> THEN <<>> ELSE DataclassesIn(Head(targs)) \o DataclassesInArgs(Tail(targs))

\* the classes transform_type_for_partial hands to make_partial_dataclass: the
\* type itself, or the direct members of a union; no other type is walked
DataclassesInPartial(tp) ==
    CASE tp.t = "Literal" -> <<>>
      [] is_dataclass_hint(tp) -> <<tp.name>>
      [] is_union(tp) ->
            LET direct == SelectSeq(tp.args, is_dataclass_hint)
            IN [i \in DOMAIN direct |-> direct[i].name]
      [] OTHER -> <<>>

RECURSIVE NestedFrom(_, _)
\* for f in fields(cls): the classes the transformation of each field meets
NestedFrom(cls, i) ==
    IF i > Len(cls.fields) THEN <<>>
    ELSE (IF fn = "make_partial_dataclass"
          THEN DataclassesInPartial(cls.fields[i].type)
          ELSE DataclassesIn(cls.fields[i].type)) \o NestedFrom(cls, i + 1)

\* a mutant of Cached: no table ever holds the class
CachedNever(cls_name, table) == FALSE

\* cls in _partial_cache, cls in _processed
Cached(cls_name, table) == cls_name \in DOMAIN table

\* the table a derivation looks its class up in
Table == IF fn = "make_dataclass_with_optional_paths_and_overwrite"
         THEN _processed ELSE _partial_cache

RECURSIVE replace_nested_types_with(_, _)
\* replace_nested_types once every nested derivation has returned: each
\* nested class is what the table holds for it
replace_nested_types_with(tp, table) ==
    CASE tp.t = "Literal" -> tp
      [] is_dataclass_hint(tp) -> table[tp.name].schema
      [] is_union(tp) ->
            LET transformed_args ==
                    [i \in DOMAIN tp.args |-> replace_nested_types_with(tp.args[i], table)]
            IN OrAll(transformed_args[1], Tail(transformed_args))
      [] tp.t = "generic" ->
            TGeneric(tp.origin,
                     [i \in DOMAIN tp.args |-> replace_nested_types_with(tp.args[i], table)])
      [] OTHER -> tp

RECURSIVE is_or_contains_dataclass_hint(_)
\* is_or_contains_dataclass on a hint get_type_hints resolved
is_or_contains_dataclass_hint(tp) ==
    IF is_dataclass_hint(tp) THEN TRUE
    ELSE IF is_union(tp)
    THEN \E i \in DOMAIN tp.args : is_or_contains_dataclass_hint(tp.args[i])
    ELSE IF tp.t = "generic" /\ tp.origin \in {"list", "tuple", "set", "dict"}
    THEN \E i \in DOMAIN tp.args : is_or_contains_dataclass_hint(tp.args[i])
    ELSE FALSE

RECURSIVE PathsLoopWith(_, _, _, _, _)
\* the loop of make_dataclass_with_optional_paths_and_overwrite over
\* fields(cls), from field i on, the nested derivations read from the table
PathsLoopWith(cls, i, required_fields, optional_fields, table) ==
    IF i > Len(cls.fields)
    THEN dataclasses_make_dataclass(cls.name \o "_WithOptionalPath",
                                    required_fields \o optional_fields)
    ELSE LET f == cls.fields[i]
             transformed_type == replace_nested_types_with(f.type, table)
         IN IF is_or_contains_dataclass_hint(f.type)
            THEN IF ~HasName(optional_fields, f.name)
                 THEN PathsLoopWith(cls, i + 1, required_fields,
                        optional_fields \o
                        <<Field(f.name, Or(transformed_type, TNone), NoneV),
                          Field(f.name \o "_path_to_yaml_file", Or(TStr, TNone), NoneV),
                          Field(f.name \o "_overwrite", Or(transformed_type, TNone), NoneV)>>,
                        table)
                 ELSE PathsLoopWith(cls, i + 1, required_fields, optional_fields, table)
            ELSE IF f.default # Missing
            THEN IF ~HasName(optional_fields, f.name)
                 THEN PathsLoopWith(cls, i + 1, required_fields,
                        Append(optional_fields, Field(f.name, transformed_type, f.default)),
                        table)
                 ELSE PathsLoopWith(cls, i + 1, required_fields, optional_fields, table)
            ELSE IF ~HasName(required_fields, f.name)
                 THEN PathsLoopWith(cls, i + 1,
                        Append(required_fields, Field(f.name, transformed_type, Missing)),
                        optional_fields, table)
                 ELSE PathsLoopWith(cls, i + 1, required_fields, optional_fields, table)

RECURSIVE transform_type_with(_, _, _)
\* transform_type_for_notfilled (marker _NotFilled) and
\* transform_type_for_partial (marker None) once every nested derivation has
\* returned
transform_type_with(tp, marker, table) ==
    CASE tp.t = "Literal" -> Or(tp, marker)
      [] is_dataclass_hint(tp) -> Or(table[tp.name].schema, marker)
      [] is_union(tp) ->
            LET new_args ==
                    [i \in DOMAIN tp.args |->
                        IF marker = TNone
                        THEN IF is_dataclass_hint(tp.args[i])
                             THEN table[tp.args[i].name].schema ELSE tp.args[i]
                        ELSE transform_type_with(tp.args[i], marker, table)]
            IN Or(OrAll(new_args[1], Tail(new_args)), marker)
      [] tp.t = "generic" /\ marker = TNotFilled ->
            Or(TGeneric(tp.origin,
                        [i \in DOMAIN tp.args |-> transform_type_with(tp.args[i], marker, table)]),
               marker)
      [] OTHER -> Or(tp, marker)

\* make_dataclass(new_cls_name, partial_fields, kw_only=True)
PartialClass(cls, new_cls_name, marker, default_spec, table) ==
    TData(new_cls_name,
          [i \in DOMAIN cls.fields |->
              Field(cls.fields[i].name,
                    transform_type_with(cls.fields[i].type, marker, table),
                    default_spec)])

\* the class a derivation makes when its loop over the fields is over
make_dataclass(f, cls, table) ==
    CASE f = "make_dataclass_with_optional_paths_and_overwrite" ->
            PathsLoopWith(cls, 1, <<>>, <<>>, table)
      [] f = "make_partial_dataclass_notfilled" ->
            PartialClass(cls, "Partial" \o cls.name \o "_NotFilled", TNotFilled, notfilled, table)
      [] f = "make_partial_dataclass" ->
            PartialClass(cls, "Partial" \o cls.name, TNone, NoneV, table)

\* a class object: its schema, and the call that made it (two calls never make
\* the same object)
ClassObject(schema) == [schema |-> schema, id |-> Len(returned) + 1]

\* the table with one more entry: table[cls] = new_cls
Store(table, cls_name, new_cls) ==
    [n \in DOMAIN table \cup {cls_name} |-> IF n = cls_name THEN new_cls ELSE table[n]]

InitShadow ==
    /\ pc = "call"
    /\ fn \in ShadowFns
    /\ \E cls \in ShadowTargets : args = <<cls>>
    /\ ret = Unset
    /\ errors = <<>>
    /\ final_resolved_val = Unset
    /\ args_config_file = Unset
    /\ merged_args = Unset
    /\ yaml_path_resolved = Unset
    /\ yaml_data = Unset
    /\ stack = <<>>
    /\ _processed = <<>>
    /\ _partial_cache = <<>>
    /\ returned = <<>>

\* make_partial_dataclass and make_partial_dataclass_notfilled, the first
\* statement: if cls in _partial_cache: return _partial_cache[cls]
CachedCall ==
    /\ pc = "call"
    /\ fn # "make_dataclass_with_optional_paths_and_overwrite"
    /\ Cached(args[1].name, _partial_cache)
    /\ ret' = _partial_cache[args[1].name]
    /\ pc' = "done"
    /\ UNCHANGED <<fn, args, errors, final_resolved_val, args_config_file, merged_args,
                   yaml_path_resolved, yaml_data, stack, _processed, _partial_cache, returned>>

\* the call goes past its first statements (_processed = {} for the
\* path-augmented derivation) and enters the loop over the fields
BeginCall ==
    /\ pc = "call"
    /\ \/ fn = "make_dataclass_with_optional_paths_and_overwrite"
       \/ ~Cached(args[1].name, _partial_cache)
    /\ stack' = <<[cls |-> args[1].name, todo |-> NestedFrom(args[1], 1)]>>
    /\ _processed' = <<>>
    /\ pc' = "derive"
    /\ UNCHANGED <<fn, args, ret, errors, final_resolved_val, args_config_file, merged_args,
                   yaml_path_resolved, yaml_data, _partial_cache, returned>>

\* the loop meets a class the table holds: the nested call returns the entry
Reuse ==
    /\ pc = "derive"
    /\ stack # <<>>
    /\ Head(stack).todo # <<>>
    /\ Cached(Head(Head(stack).todo), Table)
    /\ stack' = <<[Head(stack) EXCEPT !.todo = Tail(@)]>> \o Tail(stack)
    /\ UNCHANGED <<pc, fn, args, ret, errors, final_resolved_val, args_config_file,
                   merged_args, yaml_path_resolved, yaml_data, _processed, _partial_cache,
                   returned>>

\* the loop meets a class the table does not hold: the nested call starts its
\* own loop over the fields
Recurse ==
    /\ pc = "derive"
    /\ stack # <<>>
    /\ Head(stack).todo # <<>>
    /\ ~Cached(Head(Head(stack).todo), Table)
    /\ Len(stack) < RecursionLimit
    /\ stack' = <<[cls |-> Head(Head(stack).todo),
                   todo |-> NestedFrom(ClassNamed(Head(Head(stack).todo)), 1)]>> \o stack
    /\ UNCHANGED <<pc, fn, args, ret, errors, final_resolved_val, args_config_file,
                   merged_args, yaml_path_resolved, yaml_data, _processed, _partial_cache,
                   returned>>

\* the nested call would pass the recursion limit: RecursionError leaves every
\* call on the stack, none of which has stored its class
RecursionOverflow ==
    /\ pc = "derive"
    /\ stack # <<>>
    /\ Head(stack).todo # <<>>
    /\ ~Cached(Head(Head(stack).todo), Table)
    /\ Len(stack) >= RecursionLimit
    /\ ret' = Err("RecursionError", Head(Head(stack).todo))
    /\ stack' = <<>>
    /\ pc' = "done"
    /\ UNCHANGED <<fn, args, errors, final_resolved_val, args_config_file, merged_args,
                   yaml_path_resolved, yaml_data, _processed, _partial_cache, returned>>

\* the end of a derivation: an exception of make_dataclass leaves every call
\* on the stack; a class is stored in the table and returned to the caller
CreateWith(new_cls) ==
    IF IsErr(new_cls)
    THEN /\ ret' = new_cls
         /\ stack' = <<>>
         /\ pc' = "done"
         /\ UNCHANGED <<_processed, _partial_cache>>
    ELSE /\ IF fn = "make_dataclass_with_optional_paths_and_overwrite"
            THEN /\ _processed' = Store(_processed, Head(stack).cls, ClassObject(new_cls))
                 /\ UNCHANGED _partial_cache
            ELSE /\ _partial_cache' = Store(_partial_cache, Head(stack).cls, ClassObject(new_cls))
                 /\ UNCHANGED _processed
         /\ IF Len(stack) = 1
            THEN /\ ret' = ClassObject(new_cls)
                 /\ stack' = <<>>
                 /\ pc' = "done"
            ELSE /\ stack' = <<[stack[2] EXCEPT !.todo = Tail(@)]>> \o Tail(Tail(stack))
                 /\ UNCHANGED <<ret, pc>>

\* the loop over the fields is over: the class is made
Create ==
    /\ pc = "derive"
    /\ stack # <<>>
    /\ Head(stack).todo = <<>>
    /\ CreateWith(make_dataclass(fn, ClassNamed(Head(stack).cls), Table))
    /\ UNCHANGED <<fn, args, errors, final_resolved_val, args_config_file, merged_args,
                   yaml_path_resolved, yaml_data, returned>>

\* the program asks for the next derivation
NextCall ==
    /\ pc = "done"
    /\ fn \in ShadowFns
    /\ Len(returned) + 1 < MaxCalls
    /\ returned' = Append(returned, [fn |-> fn, cls |-> args[1].name, ret |-> ret])
    /\ fn' \in ShadowFns
    /\ \E cls \in ShadowTargets : args' = <<cls>>
    /\ ret' = Unset
    /\ pc' = "call"
    /\ UNCHANGED <<errors, final_resolved_val, args_config_file, merged_args,
                   yaml_path_resolved, yaml_data, stack, _processed, _partial_cache>>

NextShadow ==
    CachedCall \/ BeginCall \/ Reuse \/ Recurse \/ RecursionOverflow \/ Create \/ NextCall

SpecShadow == InitShadow /\ [][NextShadow]_vars

-----------------------------------------------------------------------------
(* C19 *)

\* the calls that have not returned derive classes that are all different
NoClassTwice == \A i, j \in DOMAIN stack : stack[i].cls = stack[j].cls => i = j

\* C19: make_dataclass_with_optional_paths_and_overwrite and
\* make_partial_dataclass_notfilled terminate for every target record, also one
\* that refers to itself directly or through a cycle of records: a class whose
\* derivation is in progress is reused rather than derived again, and no
\* derivation ends in RecursionError
C19_ShadowTerminates ==
    fn \in {"make_dataclass_with_optional_paths_and_overwrite",
            "make_partial_dataclass_notfilled"}
    => /\ NoClassTwice
       /\ pc = "done" => ~(IsErr(ret) /\ ret.e = "RecursionError")

-----------------------------------------------------------------------------
(* C20 *)

\* the earlier calls of the function now returning, on the same target
EarlierSame == {i \in DOMAIN returned : returned[i].fn = fn /\ returned[i].cls = args[1].name}

\* C20: deriving the path-augmented schema, or the partial-sentinel schema,
\* twice for the same target type yields structurally equal schemas, whatever
\* was derived in between; the second call of make_partial_dataclass_notfilled
\* returns the very object the first one cached
C20_Idempotent ==
    (pc = "done" /\ fn \in {"make_dataclass_with_optional_paths_and_overwrite",
                            "make_partial_dataclass_notfilled"})
    => \A i \in EarlierSame :
          IF IsErr(ret) \/ IsErr(returned[i].ret)
          THEN ret = returned[i].ret
          ELSE /\ ret.schema = returned[i].ret.schema
               /\ fn = "make_partial_dataclass_notfilled" => ret = returned[i].ret

\* a record with nested records is derived a second time, another derivation
\* having returned in between
C20_Witness ==
    /\ pc = "done"
    /\ fn \in {"make_dataclass_with_optional_paths_and_overwrite",
               "make_partial_dataclass_notfilled"}
    /\ args[1] = Pair
    /\ ~IsErr(ret)
    /\ Len(returned) = 2
    /\ 1 \in EarlierSame
    /\ 2 \notin EarlierSame

-----------------------------------------------------------------------------
(* C21 *)

RECURSIVE ContainsRecord(_)
\* the type is or contains a record: directly, inside a union, or inside a
\* collection
ContainsRecord(tp) ==
    CASE tp.t \in {"dataclass", "forward"} -> TRUE
      [] tp.t \in {"Union", "generic"} -> \E i \in DOMAIN tp.args : ContainsRecord(tp.args[i])
      [] OTHER -> FALSE

\* the fields of the schema with the name
FieldsNamed(schema, name) == SelectSeq(schema.fields, LAMBDA f : f.name = name)

\* the names the derivation adds next to a field
ShadowNames(name) == {name \o "_path_to_yaml_file", name \o "_overwrite"}

\* no field of the target has a name the derivation adds next to another one
NoShadowName(cls) ==
    \A i, j \in DOMAIN cls.fields : cls.fields[i].name \notin ShadowNames(cls.fields[j].name)

\* the three optional fields of a record-containing field, the nested records
\* path-augmented
Tripled(schema, f) ==
    /\ FieldsNamed(schema, f.name) = <<Field(f.name, Or(replace_nested_types(f.type), TNone), NoneV)>>
    /\ FieldsNamed(schema, f.name \o "_path_to_yaml_file")
          = <<Field(f.name \o "_path_to_yaml_file", Or(TStr, TNone), NoneV)>>
    /\ FieldsNamed(schema, f.name \o "_overwrite")
          = <<Field(f.name \o "_overwrite", Or(replace_nested_types(f.type), TNone), NoneV)>>

\* the field copied with its type and default, and no field added next to it
Copied(schema, f) ==
    /\ FieldsNamed(schema, f.name) = <<f>>
    /\ \A name \in ShadowNames(f.name) : FieldsNamed(schema, name) = <<>>

\* the path-augmented derivation of a target returned a class
PathAugmented ==
    /\ pc = "done"
    /\ fn = "make_dataclass_with_optional_paths_and_overwrite"
    /\ ~IsErr(ret)

\* C21: in the path-augmented schema every field of the target whose type is
\* or contains a record (directly, inside a union or inside a collection) has
\* exactly the three optional fields <field>, <field>_path_to_yaml_file and
\* <field>_overwrite, the records inside them path-augmented; every other
\* field, a Literal leaf included, is copied with its type and default and has
\* no field added next to it
C21_PathAugmentedShape ==
    (PathAugmented /\ NoShadowName(args[1]))
    => \A i \in DOMAIN args[1].fields :
          IF ContainsRecord(args[1].fields[i].type)
          THEN Tripled(ret.schema, args[1].fields[i])
          ELSE Copied(ret.schema, args[1].fields[i])

-----------------------------------------------------------------------------
(* C22 *)

\* the fields of the target that bear the name of a shadow field of another
\* field of the target
Colliding(cls) ==
    {i \in DOMAIN cls.fields :
        \E j \in DOMAIN cls.fields : cls.fields[i].name \in ShadowNames(cls.fields[j].name)}

\* C22: the path-augmented derivation of a target with unique field names
\* does not fail and yields pairwise distinct field names, also when the
\* target declares a field named <f>_path_to_yaml_file or <f>_overwrite next
\* to a record field <f>, and that field of the target is still there with its
\* own type and default
C22_NoNameCollision ==
    (pc = "done" /\ fn = "make_dataclass_with_optional_paths_and_overwrite"
        /\ ~(IsErr(ret) /\ ret.e = "RecursionError"))
    => /\ ~IsErr(ret)
       /\ \A i, j \in DOMAIN ret.schema.fields :
             ret.schema.fields[i].name = ret.schema.fields[j].name => i = j
       /\ \A i \in Colliding(args[1]) :
             FieldsNamed(ret.schema, args[1].fields[i].name) = <<args[1].fields[i]>>

-----------------------------------------------------------------------------
(* C23 *)

\* the extra arguments are the shadow instance with every field at its default
NothingGiven ==
    /\ fn = "parse_arguments_with_command_line_args"
    /\ args[2] = NothingSpecified(args[1])

\* C23: the instance of the path-augmented partial-sentinel shadow of a target
\* with every field left at its default is a valid instance whose fields all
\* hold the sentinel; resolved in non-strict mode and pruned it is the empty
\* mapping, and it adds no key to the merge that follows
C23_NothingSpecified ==
    (NothingGiven /\ pc # "call")
    => /\ ~IsErr(args[2])
       /\ \A name \in DOMAIN args[2].a : is_notfilled(args[2].a[name])
       /\ ExtraArgsDict(args[1], args[2]) = EmptyDict
       /\ pc = "decode"
            => merged_args = merge_nested_dicts(args_config_file,
                                IF args[4] = NoneV THEN EmptyDict ELSE args[4])

\* the merge has been done for a target with a nested record, the command
\* line giving some keys
C23_Witness ==
    /\ NothingGiven
    /\ pc = "decode"
    /\ args[1] = HOP
    /\ args[4] # NoneV
    /\ merged_args # EmptyDict

-----------------------------------------------------------------------------
(* C24 *)

RECURSIVE NoPreset(_)
\* no value is a preset exposing get_yaml_file_path
NoPreset(v) ==
    CASE v.k = "obj" -> \A name \in DOMAIN v.a : NoPreset(v.a[name])
      [] v.k = "dict" -> \A key \in DOMAIN v.d : NoPreset(v.d[key])
      [] v.k = "list" -> \A i \in DOMAIN v.l : NoPreset(v.l[i])
      [] OTHER -> ~has_get_yaml_file_path(v)

\* a source gives the field: the extra arguments, the command line, or the
\* configuration file when one is read
Contributed(name) ==
    LET first_merged_args == FirstMergedArgs(args[1], args[2], args[4])
    IN \/ name \in DOMAIN first_merged_args.d
       \/ /\ ConfigFilePath(args[3], first_merged_args) # NoneV
          /\ name \in DOMAIN args_config_file.d

\* the default of a field as the configuration holds it: the record loaded
\* from the preset's file when the default is a preset, else the default
DefaultResolved(field) ==
    IF has_get_yaml_file_path(field.default)
    THEN LET record == CHOOSE tp \in SeqToSet(Members(field.type)) : is_dataclass_type(tp)
         IN dacite_from_dict(record, Files[get_yaml_file_path(field.default).s], TRUE)
    ELSE field.default

\* parse_arguments_with_command_line_args returned a configuration
Parsed ==
    /\ pc = "done"
    /\ fn = "parse_arguments_with_command_line_args"
    /\ ~IsErr(ret)

\* C24: after the merge and the decoding into the target the result is
\* resolved once more: a field no source gives holds the target's default, and
\* a default or any other value that is a preset exposing get_yaml_file_path
\* is replaced by the record loaded from the preset's file, so the returned
\* configuration never holds the preset itself
C24_SecondPass ==
    Parsed
    => /\ NoPreset(ret)
       /\ \A i \in DOMAIN args[1].fields :
             ~Contributed(args[1].fields[i].name)
             => ret.a[args[1].fields[i].name] = DefaultResolved(args[1].fields[i])

\* no source gives the field whose default is a preset, and the configuration
\* holds the record of the preset's file
C24_Witness ==
    /\ Parsed
    /\ args = <<PresetConfig, NoneV, NoneV, NoneV>>
    /\ ret = Obj("PresetConfig", [model |-> Obj("NestedConfig", [z |-> IntV(1), w |-> IntV(2)])])

-----------------------------------------------------------------------------
(* C25 *)

\* the union member a value is an instance of once decoded on its own, and
\* "none" when it decodes to no record
MemberGiven(tp, data) ==
    LET value == build_value(tp, data, TRUE)
    IN IF ~IsErr(value) /\ value.k = "obj" THEN value.c ELSE "none"

\* the configuration file and the command line both give the field a record,
\* each a different member of the field's union, and the extra arguments give
\* nothing
TwoMembers(field) ==
    /\ fn = "parse_arguments_with_command_line_args"
    /\ args[2] = NoneV
    /\ args[3] # NoneV /\ args[3].s \in DOMAIN Files
    /\ args[4] # NoneV
    /\ is_union(field.type)
    /\ field.name \in DOMAIN Files[args[3].s].d
    /\ field.name \in DOMAIN args[4].d
    /\ IsDict(args[4].d[field.name])
    /\ MemberGiven(field.type, Files[args[3].s].d[field.name]) # "none"
    /\ MemberGiven(field.type, args[4].d[field.name]) # "none"
    /\ MemberGiven(field.type, Files[args[3].s].d[field.name])
          # MemberGiven(field.type, args[4].d[field.name])

\* C25: when the command line gives a union-typed field a value of another
\* member than the configuration file does, the resolved field is an instance
\* of the member the command line gives and holds the command line's values;
\* the keys the file's member leaves in the merge do not select the member
C25_MemberOfHighestSource ==
    Parsed
    => \A i \in DOMAIN args[1].fields :
          TwoMembers(args[1].fields[i])
          => /\ ret.a[args[1].fields[i].name].k = "obj"
             /\ ret.a[args[1].fields[i].name].c
                   = MemberGiven(args[1].fields[i].type, args[4].d[args[1].fields[i].name])
             /\ \A key \in DOMAIN args[4].d[args[1].fields[i].name].d :
                   ret.a[args[1].fields[i].name].a[key]
                      = args[4].d[args[1].fields[i].name].d[key]

-----------------------------------------------------------------------------
(* make_partial_dataclass_notfilled called by several threads at once: each  *)
(* thread has its own calls and locals, _partial_cache is the one module    *)
(* global                                                                  *)

Threads == {"t1", "t2"}
ThreadTargets == {NestedConfig, Pair}

\* the step of a call once make_dataclass has returned: partial_cls.__module__
\* is assigned before the class is stored
AfterMakeStore == "store"

AfterMake == "module"

\* a call of make_partial_dataclass_notfilled that has passed the look-up: its
\* class, the nested classes still to derive, those obtained so far, the
\* statement it is at and its local partial_cls
ThreadFrame(cls_name) ==
    [cls |-> cls_name, todo |-> NestedFrom(ClassNamed(cls_name), 1), got |-> <<>>,
     step |-> "loop", partial_cls |-> Unset]

\* the caller's frame once a nested call has returned new_cls
Returned(frame, new_cls) ==
    [frame EXCEPT !.got = Store(@, Head(frame.todo), new_cls), !.todo = Tail(@)]

InitThreads ==
    /\ fn = "make_partial_dataclass_notfilled"
    /\ pc = [t \in Threads |-> "call"]
    /\ args \in [Threads -> {<<cls>> : cls \in ThreadTargets}]
    /\ ret = [t \in Threads |-> Unset]
    /\ stack = [t \in Threads |-> <<>>]
    /\ errors = <<>>
    /\ final_resolved_val = Unset
    /\ args_config_file = Unset
    /\ merged_args = Unset
    /\ yaml_path_resolved = Unset
    /\ yaml_data = Unset
    /\ _processed = <<>>
    /\ _partial_cache = <<>>
    /\ returned = <<>>

\* if cls in _partial_cache: return _partial_cache[cls]
ThreadCached(t) ==
    /\ pc[t] = "call"
    /\ Cached(args[t][1].name, _partial_cache)
    /\ ret' = [ret EXCEPT ![t] = _partial_cache[args[t][1].name]]
    /\ pc' = [pc EXCEPT ![t] = "done"]
    /\ UNCHANGED <<fn, args, errors, final_resolved_val, args_config_file, merged_args,
                   yaml_path_resolved, yaml_data, stack, _processed, _partial_cache, returned>>

\* the look-up fails and the call enters its loop over the fields
ThreadBegin(t) ==
    /\ pc[t] = "call"
    /\ ~Cached(args[t][1].name, _partial_cache)
    /\ stack' = [stack EXCEPT ![t] = <<ThreadFrame(args[t][1].name)>>]
    /\ pc' = [pc EXCEPT ![t] = "derive"]
    /\ UNCHANGED <<fn, args, ret, errors, final_resolved_val, args_config_file, merged_args,
                   yaml_path_resolved, yaml_data, _processed, _partial_cache, returned>>

\* the loop meets a class the cache holds at this moment: the nested call
\* returns the entry
ThreadReuse(t) ==
    /\ pc[t] = "derive"
    /\ Head(stack[t]).step = "loop"
    /\ Head(stack[t]).todo # <<>>
    /\ Cached(Head(Head(stack[t]).todo), _partial_cache)
    /\ stack' = [stack EXCEPT ![t] =
                    <<Returned(Head(@), _partial_cache[Head(Head(@).todo)])>> \o Tail(@)]
    /\ UNCHANGED <<pc, fn, args, ret, errors, final_resolved_val, args_config_file,
                   merged_args, yaml_path_resolved, yaml_data, _processed, _partial_cache,
                   returned>>

\* the loop meets a class the cache does not hold: the nested call starts its
\* own loop
ThreadRecurse(t) ==
    /\ pc[t] = "derive"
    /\ Head(stack[t]).step = "loop"
    /\ Head(stack[t]).todo # <<>>
    /\ ~Cached(Head(Head(stack[t]).todo), _partial_cache)
    /\ Len(stack[t]) < RecursionLimit
    /\ stack' = [stack EXCEPT ![t] = <<ThreadFrame(Head(Head(@).todo))>> \o @]
    /\ UNCHANGED <<pc, fn, args, ret, errors, final_resolved_val, args_config_file,
                   merged_args, yaml_path_resolved, yaml_data, _processed, _partial_cache,
                   returned>>

\* partial_cls = make_dataclass(new_cls_name, partial_fields, kw_only=True): a
\* new class object, of module "types", known to this call only
ThreadMake(t) ==
    /\ pc[t] = "derive"
    /\ Head(stack[t]).step = "loop"
    /\ Head(stack[t]).todo = <<>>
    /\ stack' = [stack EXCEPT ![t] =
                    <<[Head(@) EXCEPT
                          !.partial_cls =
                              [schema |-> make_dataclass(fn, ClassNamed(Head(stack[t]).cls),
                                                         Head(stack[t]).got),
                               id |-> t, module |-> "types"],
                          !.step = AfterMake]>> \o Tail(@)]
    /\ UNCHANGED <<pc, fn, args, ret, errors, final_resolved_val, args_config_file,
                   merged_args, yaml_path_resolved, yaml_data, _processed, _partial_cache,
                   returned>>

\* partial_cls.__module__ = cls.__module__
ThreadSetModule(t) ==
    /\ pc[t] = "derive"
    /\ Head(stack[t]).step = "module"
    /\ stack' = [stack EXCEPT ![t] =
                    <<[Head(@) EXCEPT !.partial_cls.module = "__main__",
                                      !.step = "store"]>> \o Tail(@)]
    /\ UNCHANGED <<pc, fn, args, ret, errors, final_resolved_val, args_config_file,
                   merged_args, yaml_path_resolved, yaml_data, _processed, _partial_cache,
                   returned>>

\* _partial_cache[cls] = partial_cls; return partial_cls
ThreadStore(t) ==
    /\ pc[t] = "derive"
    /\ Head(stack[t]).step = "store"
    /\ _partial_cache' = Store(_partial_cache, Head(stack[t]).cls, Head(stack[t]).partial_cls)
    /\ IF Len(stack[t]) = 1
       THEN /\ ret' = [ret EXCEPT ![t] = Head(stack[t]).partial_cls]
            /\ pc' = [pc EXCEPT ![t] = "done"]
            /\ stack' = [stack EXCEPT ![t] = <<>>]
       ELSE /\ stack' = [stack EXCEPT ![t] =
                            <<Returned(@[2], Head(@).partial_cls)>> \o Tail(Tail(@))]
            /\ UNCHANGED <<ret, pc>>
    /\ UNCHANGED <<fn, args, errors, final_resolved_val, args_config_file, merged_args,
                   yaml_path_resolved, yaml_data, _processed, returned>>

NextThreads ==
    \E t \in Threads :
        \/ ThreadCached(t) \/ ThreadBegin(t) \/ ThreadReuse(t) \/ ThreadRecurse(t)
        \/ ThreadMake(t) \/ ThreadSetModule(t) \/ ThreadStore(t)

SpecThreads == InitThreads /\ [][NextThreads]_vars

-----------------------------------------------------------------------------
(* C26 *)

\* the class a derivation of the target yields when nothing runs beside it
Sequential(cls_name) ==
    [schema |-> make_partial_dataclass_notfilled(ClassNamed(cls_name)), module |-> "__main__"]

\* the class object is fully constructed and is structurally the class of a
\* sequential derivation
Complete(class_object, cls_name) ==
    /\ class_object.schema = Sequential(cls_name).schema
    /\ class_object.module = Sequential(cls_name).module

\* C26: when several threads derive the partial-sentinel schema of the same
\* or of overlapping targets at once, in every interleaving each entry of the
\* shared cache is a fully constructed class, and every thread that returns
\* holds a complete class structurally equal to the one a sequential
\* derivation yields; the threads may differ only in the object they hold
C26_CacheUnderThreads ==
    (fn = "make_partial_dataclass_notfilled" /\ DOMAIN pc = Threads)
    => /\ \A cls_name \in DOMAIN _partial_cache :
             Complete(_partial_cache[cls_name], cls_name)
       /\ \A t \in Threads : pc[t] = "done" => Complete(ret[t], args[t][1].name)

\* two threads derived the same target with nested records at the same time
\* and hold two class objects
C26_Witness ==
    /\ fn = "make_partial_dataclass_notfilled" /\ DOMAIN pc = Threads
    /\ \A t \in Threads : pc[t] = "done" /\ args[t] = <<Pair>>
    /\ ret["t1"] # ret["t2"]

-----------------------------------------------------------------------------
(* The files one resolution opens: every call of                           *)
(* resolve_yaml_file_to_base_dataclass the resolver makes, one frame each  *)

Config3 == TData("Config3", <<Field("c", Config2, Missing)>>)

HopPaths ==
    {StrV(p) : p \in {"z1w1.yaml", "outer.yaml", "deep.yaml", "inline.yaml", "bad.yaml",
                      "preset.yaml", "missing.yaml"}}
HopTargets == {NestedConfig, Config2, Config3, AppConfig}
InitialLevels == {0, 1}

\* a nested call that keeps the caller's counter
HopLevelKept(level_of_recursion) == level_of_recursion

\* level_of_recursion=level_of_recursion + 1 of the two calls that open a file
HopLevel(level_of_recursion) == level_of_recursion + 1

\* one call of resolve_yaml_file_to_base_dataclass made by the resolver: its
\* arguments but the counter, and the counter of the caller
Hop(case, yaml_path, base_cls, raise_error_with_nones, level_of_recursion) ==
    [case |-> case, yaml_path |-> yaml_path, base_cls |-> base_cls,
     raise_error_with_nones |-> raise_error_with_nones, caller |-> level_of_recursion]

RECURSIVE Hops(_, _, _, _)
RECURSIVE FieldsHops(_, _, _, _, _)
RECURSIVE ArmsHops(_, _, _, _, _, _)

\* the calls one union arm makes in Case 2a ("direct"), Case 2b ("provider")
\* and Case 3 ("overwrite")
ArmHops(dataclass_type, val, case, raise_error_with_notfilled, level_of_recursion) ==
    IF is_notfilled(val) THEN <<>>
    ELSE CASE case = "direct" ->
                IF is_dataclass(val)
                THEN Hops(val, resolve_type(dataclass_type), raise_error_with_notfilled,
                          level_of_recursion + 1)
                ELSE <<>>
           [] case = "provider" ->
                IF ~is_dataclass(val) /\ has_get_yaml_file_path(val)
                   /\ is_dataclass_type(dataclass_type)
                THEN <<Hop("provider", get_yaml_file_path(val), resolve_type(dataclass_type),
                           raise_error_with_notfilled, level_of_recursion)>>
                ELSE <<>>
           [] OTHER ->
                IF is_dataclass(val)
                THEN Hops(val, make_partial_dataclass_notfilled(dataclass_type), FALSE,
                          level_of_recursion + 1)
                ELSE <<>>

ArmsHops(dataclass_type_list, i, val, case, raise_error_with_notfilled, level_of_recursion) ==
    IF i > Len(dataclass_type_list) THEN <<>>
    ELSE ArmHops(dataclass_type_list[i], val, case, raise_error_with_notfilled,
                 level_of_recursion)
         \o ArmsHops(dataclass_type_list, i + 1, val, case, raise_error_with_notfilled,
                     level_of_recursion)

\* Case 1: the call for a path that is a string
PathHops(field, path_val, raise_error_with_notfilled, level_of_recursion) ==
    IF is_notfilled(path_val) \/ path_val.k # "str" THEN <<>>
    ELSE <<Hop("path", path_val, resolve_type(field.type), raise_error_with_notfilled,
               level_of_recursion)>>

\* the calls resolve_extended_object_to_dict_one_field makes, in its order
FieldHops(extended_obj, field, raise_error_with_notfilled, level_of_recursion) ==
    IF IsBaseField(extended_obj, field) THEN <<>>
    ELSE PathHops(field, FieldPathVal(extended_obj, field), raise_error_with_notfilled,
                  level_of_recursion)
         \o ArmsHops(extract_union_types(field.type), 1, FieldVal(extended_obj, field),
                     "direct", raise_error_with_notfilled, level_of_recursion)
         \o ArmsHops(extract_union_types(field.type), 1, FieldVal(extended_obj, field),
                     "provider", raise_error_with_notfilled, level_of_recursion)
         \o ArmsHops(extract_union_types(field.type), 1,
                     FieldOverwriteVal(extended_obj, field), "overwrite", FALSE,
                     level_of_recursion)

FieldsHops(extended_obj, field_list, i, raise_error_with_notfilled, level_of_recursion) ==
    IF i > Len(field_list) THEN <<>>
    ELSE FieldHops(extended_obj, field_list[i], raise_error_with_notfilled,
                   level_of_recursion)
         \o FieldsHops(extended_obj, field_list, i + 1, raise_error_with_notfilled,
                       level_of_recursion)

\* the calls resolve_extended_object_to_dict makes over the fields of base_cls
Hops(extended_obj, base_cls, raise_error_with_notfilled, level_of_recursion) ==
    IF IsErr(base_cls) THEN <<>>
    ELSE IF ~is_dataclass(extended_obj) \/ ~is_dataclass_type(base_cls) THEN <<>>
    ELSE FieldsHops(extended_obj, fields(base_cls), 1, raise_error_with_notfilled,
                    level_of_recursion)

\* the extended object resolve_yaml_file_to_base_dataclass decodes from the
\* file, or the exception that ends the call before any field is resolved
FileObject(yaml_path, base_cls, package_name) ==
    Try(resolve_package_path(yaml_path, package_name), LAMBDA file_name :
    Try(ReadYaml(yaml_path, file_name), LAMBDA loaded :
    Try(make_partial_dataclass_with_optional_paths(base_cls), LAMBDA extended_cls :
        from_dict_with_union_handling(extended_cls, loaded))))

\* a call of resolve_yaml_file_to_base_dataclass with the calls it has still
\* to make; via is the call of the caller that made it
FileFrame(via, package_name, level_of_recursion) ==
    [via |-> via, level_of_recursion |-> level_of_recursion,
     todo |-> IF level_of_recursion > MaxDepth THEN <<>>
              ELSE Hops(FileObject(via.yaml_path, via.base_cls, package_name),
                        via.base_cls, via.raise_error_with_nones, level_of_recursion)]

\* what the call of a frame returns
FrameResult(frame, package_name) ==
    resolve_yaml_file_to_base_dataclass(frame.via.yaml_path, frame.via.base_cls,
        frame.via.raise_error_with_nones, package_name, frame.level_of_recursion)

InitHops ==
    /\ pc = "call"
    /\ fn = "resolve_yaml_file_to_base_dataclass"
    /\ \E yaml_path \in HopPaths : \E base_cls \in HopTargets :
       \E raise_error_with_nones \in BOOLEAN : \E package_name \in PackageNames :
       \E level_of_recursion \in InitialLevels :
          args = <<yaml_path, base_cls, raise_error_with_nones, package_name,
                   level_of_recursion>>
    /\ ret = Unset
    /\ errors = <<>>
    /\ final_resolved_val = Unset
    /\ args_config_file = Unset
    /\ merged_args = Unset
    /\ yaml_path_resolved = Unset
    /\ yaml_data = Unset
    /\ stack = <<>>
    /\ _processed = <<>>
    /\ _partial_cache = <<>>
    /\ returned = <<>>

\* the caller's call
HopCall ==
    /\ pc = "call"
    /\ stack' = <<FileFrame(Hop("call", args[1], args[2], args[3], args[5]), args[4], args[5])>>
    /\ pc' = "hops"
    /\ UNCHANGED <<fn, args, ret, errors, final_resolved_val, args_config_file, merged_args,
                   yaml_path_resolved, yaml_data, _processed, _partial_cache, returned>>

\* _resolve_dataclass_from_path or _try_resolve_yaml_provider_value calls
\* resolve_yaml_file_to_base_dataclass for the next file
HopInto ==
    /\ pc = "hops"
    /\ Head(stack).todo # <<>>
    /\ stack' = <<FileFrame(Head(Head(stack).todo), args[4],
                            HopLevel(Head(Head(stack).todo).caller))>> \o stack
    /\ UNCHANGED <<pc, fn, args, ret, errors, final_resolved_val, args_config_file,
                   merged_args, yaml_path_resolved, yaml_data, _processed, _partial_cache,
                   returned>>

\* a nested call returns or raises: an exception of Case 1 in a field of the
\* file's own record leaves the calling resolution, which makes no more calls
HopReturn ==
    /\ pc = "hops"
    /\ Len(stack) > 1
    /\ Head(stack).todo = <<>>
    /\ stack' = <<[stack[2] EXCEPT !.todo =
                      IF /\ IsErr(FrameResult(Head(stack), args[4]))
                         /\ Head(stack).via.case = "path"
                         /\ Head(stack).via.caller = stack[2].level_of_recursion
                      THEN <<>>
                      ELSE Tail(@)]>> \o Tail(Tail(stack))
    /\ UNCHANGED <<pc, fn, args, ret, errors, final_resolved_val, args_config_file,
                   merged_args, yaml_path_resolved, yaml_data, _processed, _partial_cache,
                   returned>>

\* the caller's call returns
HopDone ==
    /\ pc = "hops"
    /\ Len(stack) = 1
    /\ Head(stack).todo = <<>>
    /\ ret' = FrameResult(Head(stack), args[4])
    /\ stack' = <<>>
    /\ pc' = "done"
    /\ UNCHANGED <<fn, args, errors, final_resolved_val, args_config_file, merged_args,
                   yaml_path_resolved, yaml_data, _processed, _partial_cache, returned>>

NextHops == HopCall \/ HopInto \/ HopReturn \/ HopDone

SpecHops == InitHops /\ [][NextHops]_vars

-----------------------------------------------------------------------------
(* C27 *)

\* every nested call of resolve_yaml_file_to_base_dataclass carries a counter
\* one above that of the resolution that made it, and the counters grow from
\* the caller's call to the innermost one
OneMorePerHop ==
    \A i \in 1..(Len(stack) - 1) :
        /\ stack[i].level_of_recursion = stack[i].via.caller + 1
        /\ stack[i].via.caller >= stack[i + 1].level_of_recursion

\* what the caller gets is what a call with the counter at 0 returns
LevelIndependent ==
    pc = "done" => ret = resolve_yaml_file_to_base_dataclass(args[1], args[2], args[3],
                                                             args[4], 0)

RECURSIVE Weight(_, _)
\* the steps a list of calls still to make stands for: each call is entered
\* and left, and makes its own calls in between
Weight(todo, package_name) ==
    IF todo = <<>> THEN 0
    ELSE 2 + Weight(FileFrame(Head(todo), package_name, HopLevel(Head(todo).caller)).todo,
                    package_name)
           + Weight(Tail(todo), package_name)

RECURSIVE Pending(_, _, _)
\* the steps the callers below the innermost call stand for: the return of
\* the call they wait for, then the calls after it
Pending(frames, i, package_name) ==
    IF i > Len(frames) THEN 0
    ELSE 1 + Weight(Tail(frames[i].todo), package_name) + Pending(frames, i + 1, package_name)

\* a bound on the steps that remain before the caller's call has returned,
\* for the position, the frames and the arguments of a state
Remaining(position, frames, arguments) ==
    CASE position = "call" ->
            2 + Weight(FileFrame(Hop("call", arguments[1], arguments[2], arguments[3],
                                     arguments[5]),
                                 arguments[4], arguments[5]).todo, arguments[4])
      [] position = "hops" ->
            1 + Weight(Head(frames).todo, arguments[4]) + Pending(frames, 2, arguments[4])
      [] OTHER -> 0

\* a resolution that has not returned has a step to take
NotStuck == pc \in {"call", "done"} \/ (pc = "hops" /\ stack # <<>>)

\* C27: over files whose references form a finite acyclic graph, every
\* resolution ends with a value or an error (each step lowers a natural
\* number and a resolution stops only when it has returned), each call that
\* opens a referenced file or a preset file carries a recursion counter
\* exactly one above that of the resolution that makes it, and the result
\* does not depend on the counter the caller starts with
C27_ReferenceResolutionTerminates ==
    /\ [](OneMorePerHop /\ LevelIndependent /\ NotStuck)
    /\ [][Remaining(pc', stack', args') < Remaining(pc, stack, args)]_vars

\* a chain of three files is open, the caller having started the counter at 1
C27_Witness ==
    /\ pc = "hops" /\ Len(stack) = 3 /\ args[5] = 1
    /\ stack[1].level_of_recursion = 3

-----------------------------------------------------------------------------
(* C28 *)

\* every field of the class defaults to the sentinel
DefaultsToSentinel(schema) ==
    \A i \in DOMAIN schema.fields : schema.fields[i].default = notfilled

\* C28 as stated: after any sequence of calls of make_partial_dataclass,
\* make_partial_dataclass_notfilled and
\* make_partial_dataclass_with_optional_paths, the class
\* make_partial_dataclass_notfilled returns for cls has every field of cls,
\* each with the sentinel as its default, and is never the class with None
\* defaults that make_partial_dataclass made for cls
C28_SentinelPartialIndependent ==
    (pc = "done" /\ fn = "make_partial_dataclass_notfilled" /\ ~IsErr(ret))
    => /\ DefaultsToSentinel(ret.schema)
       /\ ret.schema = make_partial_dataclass_notfilled(args[1])

-----------------------------------------------------------------------------
(* C29 *)

\* the file gives the record field both a path and an inline value, and the
\* file at the path resolves in strict mode to a complete record
InlineOnReference(field) ==
    /\ is_dataclass_type(field.type)
    /\ yaml_data.k = "dict"
    /\ field.name \in DOMAIN yaml_data.d
    /\ yaml_data.d[field.name].k = "dict"
    /\ (field.name \o "_path_to_yaml_file") \in DOMAIN yaml_data.d
    /\ ~IsErr(resolve_yaml_file_to_base_dataclass(
                  yaml_data.d[field.name \o "_path_to_yaml_file"], field.type, TRUE,
                  args[4], 1))

\* the values of the referenced file with the sub-fields of the inline value
\* on top
ReferenceThenInline(field) ==
    merge_nested_dicts(
        asdict(resolve_yaml_file_to_base_dataclass(
                   yaml_data.d[field.name \o "_path_to_yaml_file"], field.type, TRUE,
                   args[4], 1)),
        yaml_data.d[field.name])

\* C29 as stated: when a file gives a record field a path whose file supplies
\* every required sub-field and an inline value that sets only some of them,
\* resolve_yaml_file_to_base_dataclass in strict mode succeeds and the field
\* holds the values of the referenced file with the inline sub-fields on top
C29_InlineOnReference ==
    (pc = "done" /\ fn = "resolve_yaml_file_to_base_dataclass" /\ Len(args) = 4
     /\ args[3] = TRUE /\ is_dataclass_type(args[2]))
    => \A i \in DOMAIN args[2].fields :
          InlineOnReference(args[2].fields[i])
          => /\ ~IsErr(ret)
             /\ asdict(ret).d[args[2].fields[i].name] = ReferenceThenInline(args[2].fields[i])

-----------------------------------------------------------------------------
(* C30 *)

\* a value that is no sentinel, no record and no preset
PlainScalar(val) == val.k \in {"int", "str", "none"}

\* the field's type contains a record and its direct value is a plain scalar
ScalarOnRecordField ==
    /\ fn = "resolve_extended_object_to_dict_one_field"
    /\ is_or_contains_dataclass(args[2].type)
    /\ PlainScalar(getattr(args[1], args[2].name))

\* C30: when the direct value of a field whose type contains a record is a
\* plain scalar, the resolver returns that value unchanged without reading
\* the field's path or overwrite: no step of the path, direct, provider or
\* overwrite cases runs, nothing is merged and no error is raised, in strict
\* and in non-strict mode
C30_PlainScalarReturned ==
    ScalarOnRecordField
    => /\ pc \in {"call", "done"}
       /\ final_resolved_val = Unset
       /\ pc = "done" => ret = getattr(args[1], args[2].name)

\* in strict mode an integer on a field typed OptionA | OptionB | int was
\* returned although the path is no string and an overwrite is given
C30_Witness ==
    /\ ScalarOnRecordField /\ pc = "done" /\ args[3] = TRUE
    /\ args[2].name = "option" /\ ret = IntV(1)
    /\ getattr(args[1], "option_path_to_yaml_file") = NoneV
    /\ getattr(args[1], "option_overwrite") # notfilled

=============================================================================
